---------------------------- MODULE Spec2Model ----------------------------
(***************************************************************************)
(* A model of knub-command-manager (dist/CommandManager.js,                *)
(* dist/parseArguments.js, dist/defaultTypes.js, dist/types.js).           *)
(*                                                                         *)
(* Strings are sequences of one-character strings (code points).  The      *)
(* input alphabet is lower-case ASCII, so the "i" flag of the prefix and   *)
(* trigger regular expressions changes nothing on it.                      *)
(***************************************************************************)
EXTENDS Integers, Sequences, FiniteSets, TLC

VARIABLES
    commands,        \* this.commands: the registered definitions, in order
    commandId,       \* this.commandId: the last id handed out
    defaultPrefix,   \* this.originalDefaultPrefix (a string, or Null)
    optionPrefixes,  \* this.optionPrefixes, sorted longest first
    calls,           \* the findMatchingCommand calls in flight, by call id
    lastAdd,         \* the last call of add(): its signatures, whether it threw,
                     \* and whether the call of add() before it threw
    snapshot,        \* the array the host holds from its last call of getAll()
    lastRemove,      \* the argument of the last call of remove()
    lastParse        \* the last direct call of parseArguments or parseSignature

vars == <<commands, commandId, defaultPrefix, optionPrefixes, calls, lastAdd,
          snapshot, lastRemove, lastParse>>

(***************************************************************************)
(* Bounds of the model.                                                    *)
(***************************************************************************)
\* the most definitions registered in the filter specification
MaxCommands == 2
\* the most definitions registered in the binder specification
MaxBindCommands == 1
\* the definitions registered in the values specification
MaxArgCommands == 1
\* the most definitions registered in the trigger specification
MaxTrigCommands == 2
\* the most definitions registered in the registration specification
MaxAddCommands == 1
\* the most ids handed out in the registry specification
MaxIds == 3
\* the longest string of the exhaustive inputs of the tokenizer
MaxTokLen == 3
\* the longest string of the exhaustive inputs of parseSignature
MaxSigLen == 3

(***************************************************************************)
(* Values.                                                                 *)
(***************************************************************************)
Null == [kind |-> "null"]
Undefined == [kind |-> "undefined"]

\* a JavaScript string value
Str(s) == [t |-> "str", s |-> s]
\* a JavaScript number value
Num(n) == [t |-> "num", n |-> n]
\* a JavaScript boolean value
Bool(b) == [t |-> "bool", b |-> b]
\* a JavaScript array value
Arr(a) == [t |-> "arr", a |-> a]
\* a JavaScript RegExp value without flags whose source is the alternation
\* alts[1]|alts[2]|... of literal texts
RegExp(alts) == [t |-> "regexp", alts |-> alts]

\* JavaScript truthiness of a model value
Truthy(v) ==
    IF v = Null \/ v = Undefined THEN FALSE
    ELSE IF v.t = "str" THEN v.s # <<>>
    ELSE IF v.t = "num" THEN v.n # 0
    ELSE IF v.t = "bool" THEN v.b
    ELSE TRUE

\* String.prototype.startsWith
StartsWith(s, p) == Len(p) <= Len(s) /\ SubSeq(s, 1, Len(p)) = p

\* A string is the sequence of its code points, as [...str] gives them; each
\* is one UTF-16 code unit, but Astral, a code point above U+FFFF, which is
\* the pair HighSurrogate, LowSurrogate.  A surrogate that is not part of a
\* pair is a code point of its own.
Astral == "U+1F600"
HighSurrogate == "U+D83D"
LowSurrogate == "U+DE00"

RECURSIVE CodeUnits(_)
\* the UTF-16 code units of string s
CodeUnits(s) ==
    IF s = <<>> THEN <<>>
    ELSE (IF Head(s) = Astral THEN <<HighSurrogate, LowSurrogate>> ELSE <<Head(s)>>)
         \o CodeUnits(Tail(s))

RECURSIVE CodePoints(_)
\* the string made of the UTF-16 code units u
CodePoints(u) ==
    IF u = <<>> THEN <<>>
    ELSE IF Len(u) >= 2 /\ u[1] = HighSurrogate /\ u[2] = LowSurrogate
    THEN <<Astral>> \o CodePoints(Tail(Tail(u)))
    ELSE <<Head(u)>> \o CodePoints(Tail(u))

\* String.prototype.slice(n), 0 <= n: n counts UTF-16 code units
StrSlice(s, n) == CodePoints(SubSeq(CodeUnits(s), n + 1, Len(CodeUnits(s))))

\* the characters \s matches, among those of the model's alphabet
IsWhitespace(ch) == ch \in {" ", "\t", "\n"}

\* the characters "." does not match
IsLineTerminator(ch) == ch \in {"\n", "\r"}

IsDigit(ch) == ch \in {"0", "1", "2", "3", "4", "5", "6", "7", "8", "9"}

DigitValue(ch) ==
    CASE ch = "0" -> 0 [] ch = "1" -> 1 [] ch = "2" -> 2 [] ch = "3" -> 3
      [] ch = "4" -> 4 [] ch = "5" -> 5 [] ch = "6" -> 6 [] ch = "7" -> 7
      [] ch = "8" -> 8 [] ch = "9" -> 9

\* a number below ten as the string a template literal makes of it
DigitString(n) == SubSeq(<<"0", "1", "2", "3", "4", "5", "6", "7", "8", "9">>, n + 1, n + 1)

(***************************************************************************)
(* parseArguments: the tokenizer.                                          *)
(***************************************************************************)
quoteChars == {"'", "\""}

\* the state of parseArguments before the first character
ParseInit ==
    [args |-> <<>>, index |-> 0, current |-> <<>>, escape |-> FALSE,
     inQuote |-> Null, startedWithQuote |-> FALSE]

\* a flushCurrent that moves the offset only when it pushes a token
flushCurrent_KeepsIndex(p, newIndex, quoted) ==
    IF p.current = <<>>
    THEN p
    ELSE [p EXCEPT !.index = newIndex,
                   !.args = Append(p.args, [index |-> p.index, value |-> p.current, quoted |-> quoted]),
                   !.current = <<>>]

\* flushCurrent(newIndex, quoted) on the tokenizer state p
flushCurrent(p, newIndex, quoted) ==
    IF p.current = <<>>
    THEN [p EXCEPT !.index = newIndex]
    ELSE [p EXCEPT !.index = newIndex,
                   !.args = Append(p.args, [index |-> p.index, value |-> p.current, quoted |-> quoted]),
                   !.current = <<>>]

\* a loop that takes every opening quote for the start of a quoted token
ParseChar_AnyQuote(p, i, char) ==
    IF p.escape
    THEN [p EXCEPT !.current = Append(p.current, char), !.escape = FALSE]
    ELSE IF IsWhitespace(char) /\ p.inQuote = Null
    THEN flushCurrent(p, i + 1, FALSE)
    ELSE IF char \in quoteChars
    THEN IF p.inQuote = Null
         THEN [p EXCEPT !.inQuote = Str(<<char>>),
                        !.startedWithQuote = TRUE]
         ELSE IF p.inQuote = Str(<<char>>)
         THEN [flushCurrent(p, i + 1, p.startedWithQuote) EXCEPT !.inQuote = Null, !.startedWithQuote = FALSE]
         ELSE [p EXCEPT !.current = Append(p.current, char)]
    ELSE IF char = "\\"
    THEN [p EXCEPT !.escape = TRUE]
    ELSE [p EXCEPT !.current = Append(p.current, char)]

\* a loop that drops a backslash and reads the next character as usual
ParseChar_NoEscape(p, i, char) ==
    IF IsWhitespace(char) /\ p.inQuote = Null
    THEN flushCurrent(p, i + 1, FALSE)
    ELSE IF char \in quoteChars
    THEN IF p.inQuote = Null
         THEN [p EXCEPT !.inQuote = Str(<<char>>),
                        !.startedWithQuote = IF p.current = <<>> THEN TRUE ELSE p.startedWithQuote]
         ELSE IF p.inQuote = Str(<<char>>)
         THEN [flushCurrent(p, i + 1, p.startedWithQuote) EXCEPT !.inQuote = Null, !.startedWithQuote = FALSE]
         ELSE [p EXCEPT !.current = Append(p.current, char)]
    ELSE IF char = "\\"
    THEN [p EXCEPT !.escape = TRUE]
    ELSE [p EXCEPT !.current = Append(p.current, char)]

\* a loop that ends a token at whitespace inside quotes too
ParseChar_SplitsInQuotes(p, i, char) ==
    IF p.escape
    THEN [p EXCEPT !.current = Append(p.current, char), !.escape = FALSE]
    ELSE IF IsWhitespace(char)
    THEN flushCurrent(p, i + 1, FALSE)
    ELSE IF char \in quoteChars
    THEN IF p.inQuote = Null
         THEN [p EXCEPT !.inQuote = Str(<<char>>),
                        !.startedWithQuote = IF p.current = <<>> THEN TRUE ELSE p.startedWithQuote]
         ELSE IF p.inQuote = Str(<<char>>)
         THEN [flushCurrent(p, i + 1, p.startedWithQuote) EXCEPT !.inQuote = Null, !.startedWithQuote = FALSE]
         ELSE [p EXCEPT !.current = Append(p.current, char)]
    ELSE IF char = "\\"
    THEN [p EXCEPT !.escape = TRUE]
    ELSE [p EXCEPT !.current = Append(p.current, char)]

\* one turn of the loop of parseArguments: character char at 0-based position i
ParseChar(p, i, char) ==
    IF p.escape
    THEN [p EXCEPT !.current = Append(p.current, char), !.escape = FALSE]
    ELSE IF IsWhitespace(char) /\ p.inQuote = Null
    THEN flushCurrent(p, i + 1, FALSE)
    ELSE IF char \in quoteChars
    THEN IF p.inQuote = Null
         THEN [p EXCEPT !.inQuote = Str(<<char>>),
                        !.startedWithQuote = IF p.current = <<>> THEN TRUE ELSE p.startedWithQuote]
         ELSE IF p.inQuote = Str(<<char>>)
         THEN [flushCurrent(p, i + 1, p.startedWithQuote) EXCEPT !.inQuote = Null, !.startedWithQuote = FALSE]
         ELSE [p EXCEPT !.current = Append(p.current, char)]
    ELSE IF char = "\\"
    THEN [p EXCEPT !.escape = TRUE]
    ELSE [p EXCEPT !.current = Append(p.current, char)]

RECURSIVE ParseLoop(_, _, _)
\* the loop of parseArguments from 0-based position i on
ParseLoop(p, chars, i) ==
    IF i >= Len(chars) THEN p
    ELSE ParseLoop(ParseChar(p, i, chars[i + 1]), chars, i + 1)

\* a parseArguments without the flush after its loop
parseArguments_NoLastFlush(str) == ParseLoop(ParseInit, str, 0).args

\* parseArguments(str): the tokens {index, value, quoted} of str
parseArguments(str) ==
    LET p == ParseLoop(ParseInit, str, 0)
    IN  IF p.current # <<>> THEN flushCurrent(p, 0, FALSE).args ELSE p.args

(***************************************************************************)
(* Signatures.  A signature is the sequence of the entries of the          *)
(* signature object, in insertion order; each entry carries its name and   *)
(* the fields add() leaves on it ({...defaultParameter, ...param}).        *)
(* Names are strings of characters; none of the model's names is the       *)
(* reserved key "error" that isError() looks for.                          *)
(***************************************************************************)
\* defaultParameter, spread under a positional parameter {type, ...}
Parameter(name, type) ==
    [name |-> name, option |-> FALSE, type |-> type, required |-> TRUE, def |-> Null,
     rest |-> FALSE, catchAll |-> FALSE, isSwitch |-> FALSE, shortcut |-> Undefined]

\* defaultParameter, spread under a valued option {option: true, type, ...}
Option(name, type) ==
    [name |-> name, option |-> TRUE, type |-> type, required |-> TRUE, def |-> Null,
     rest |-> FALSE, catchAll |-> FALSE, isSwitch |-> FALSE, shortcut |-> Undefined]

\* defaultParameter, spread under switchOption({...})
switchOption(name) ==
    [name |-> name, option |-> TRUE, type |-> "bool", required |-> TRUE, def |-> Null,
     rest |-> FALSE, catchAll |-> FALSE, isSwitch |-> TRUE, shortcut |-> Undefined]

\* an error message: the template's fixed text and the interpolated text
Msg(what, detail) == [what |-> what, detail |-> detail]

\* a value {error: ...}
Err(e) == [error |-> e]

(***************************************************************************)
(* The type converters: the three of defaultTypeConverters, and "boom",    *)
(* a converter of the host application that throws an Error which is not   *)
(* a TypeConversionError.                                                  *)
(***************************************************************************)
RECURSIVE DigitsToNat(_)
DigitsToNat(s) ==
    IF s = <<>> THEN 0
    ELSE 10 * DigitsToNat(SubSeq(s, 1, Len(s) - 1)) + DigitValue(s[Len(s)])

RECURSIVE TrimLeft(_)
TrimLeft(s) == IF s # <<>> /\ IsWhitespace(s[1]) THEN TrimLeft(Tail(s)) ELSE s

RECURSIVE TrimRight(_)
TrimRight(s) ==
    IF s # <<>> /\ IsWhitespace(s[Len(s)]) THEN TrimRight(SubSeq(s, 1, Len(s) - 1)) ELSE s

\* the digits of a decimal integer literal with an optional sign, or <<>>
SignedDigits(s) ==
    LET body == IF s # <<>> /\ s[1] \in {"-", "+"} THEN Tail(s) ELSE s
    IN  IF body # <<>> /\ \A k \in 1..Len(body) : IsDigit(body[k]) THEN body ELSE <<>>

\* isNaN(value) for a string value: Number() trims white space, reads "" as 0
\* and a signed run of digits as a number (the model's inputs hold no
\* fraction, exponent, radix prefix or "Infinity")
isNaN(s) ==
    LET t == TrimRight(TrimLeft(s))
    IN  t # <<>> /\ SignedDigits(t) = <<>>

\* parseFloat(value) of a string that isNaN() let through
parseFloat(s) ==
    LET t == TrimRight(TrimLeft(s))
        d == SignedDigits(t)
    IN  IF t = <<>> THEN [t |-> "NaN"]
        ELSE IF t[1] = "-" THEN Num(0 - DigitsToNat(d)) ELSE Num(DigitsToNat(d))

\* String(value)
StringOf(v) ==
    IF v.t = "str" THEN v
    ELSE IF v.t = "bool" THEN Str(IF v.b THEN <<"t", "r", "u", "e">> ELSE <<"f", "a", "l", "s", "e">>)
    ELSE v

\* the outcome of calling converter type on value: [ok], a thrown
\* TypeConversionError [tce], or another thrown error [thrown]
Convert(type, value) ==
    CASE type = "string" -> [ok |-> StringOf(value)]
      [] type = "number" ->
            IF value.t = "str" /\ isNaN(value.s)
            THEN [tce |-> <<"V", "a", "l", "u", "e", " ", "i", "s", " ", "n", "o", "t", " ", "a", " ", "n", "u", "m", "b", "e", "r">>]
            ELSE IF value.t = "str" THEN [ok |-> parseFloat(value.s)] ELSE [ok |-> value]
      [] type = "bool" ->
            [ok |-> Bool(value = Str(<<"t", "r", "u", "e">>) \/ value = Str(<<"1">>))]
      [] type = "boom" -> [thrown |-> "Error"]

(***************************************************************************)
(* tryMatchingArgumentsToSignature: the scan of the tokens.                *)
(***************************************************************************)
\* the first element of seq that satisfies Test, or none
FirstIndex(seq, Test(_)) ==
    IF \E k \in 1..Len(seq) : Test(seq[k])
    THEN CHOOSE k \in 1..Len(seq) : Test(seq[k]) /\ \A j \in 1..(k - 1) : ~Test(seq[j])
    ELSE 0

\* a match that takes every character up to the end as the name, /^(\S*)$/
optMatchRegex_Greedy(text) ==
    IF \A j \in 1..Len(text) : ~IsWhitespace(text[j])
    THEN [name |-> text, value |-> Undefined]
    ELSE Null

\* text.match(optMatchRegex), /^(\S*?)(?:=(.+))?$/: the shortest name of
\* non-white-space characters that is followed by the end of the text or by
\* "=" and a non-empty value without line terminators; Null when none is
optMatchRegex(text) ==
    LET n == Len(text)
        Fits(k) ==
            /\ \A j \in 1..k : ~IsWhitespace(text[j])
            /\ \/ k = n
               \/ /\ k + 2 <= n
                  /\ text[k + 1] = "="
                  /\ \A j \in (k + 2)..n : ~IsLineTerminator(text[j])
    IN  IF \E k \in 0..n : Fits(k)
        THEN LET k == CHOOSE k \in 0..n : Fits(k) /\ \A j \in 0..(k - 1) : ~Fits(j)
             IN  [name |-> SubSeq(text, 1, k),
                  value |-> IF k = n THEN Undefined ELSE Str(SubSeq(text, k + 2, n))]
        ELSE Null

\* result[name] = entry: an existing key keeps its place, a new one is added last
SetResult(result, entry) ==
    LET at == FirstIndex(result, LAMBDA e : e.name = entry.name)
    IN  IF at = 0 THEN Append(result, entry) ELSE [result EXCEPT ![at] = entry]

\* result[name] != null
HasResult(result, name) == \E k \in 1..Len(result) : result[k].name = name

\* a bound value: {parameter|option: source, value, usesDefaultValue?}
Bound(source, value, usesDefault) ==
    [name |-> source.name, source |-> source, value |-> value, usesDefaultValue |-> usesDefault]

\* a binder that takes every entry of the signature for a parameter
ParametersOf_All(signature) == signature

\* signatureEntries.filter(sig => sig.option !== true)
ParametersOf(signature) == SelectSeq(signature, LAMBDA e : ~e.option)

\* signatureEntries.filter(sig => sig.option === true)
OptionsOf(signature) == SelectSeq(signature, LAMBDA e : e.option)

\* a binder that takes no token for an option
MatchingOptionPrefix_None(prefixes, value) == <<>>

\* a binder that tries the first of the option prefixes only
MatchingOptionPrefix_FirstOnly(prefixes, value) ==
    IF prefixes # <<>> /\ StartsWith(value, prefixes[1]) THEN prefixes[1] ELSE <<>>

\* this.optionPrefixes.find(pr => arg.value.startsWith(pr)), or <<>>
MatchingOptionPrefix(prefixes, value) ==
    LET at == FirstIndex(prefixes, LAMBDA pr : StartsWith(value, pr))
    IN  IF at = 0 THEN <<>> ELSE prefixes[at]

\* a token loop that looks for options in quoted tokens too
ScanToken_OptionsInQuotes(prefixes, signature, args, str, i, paramIndex, result) ==
    LET arg == args[i + 1]
        parameters == ParametersOf(signature)
        options == OptionsOf(signature)
        matchingOptionPrefix == MatchingOptionPrefix(prefixes, arg.value)
        optMatch == IF matchingOptionPrefix = <<>> THEN Null
                    ELSE optMatchRegex(StrSlice(arg.value, Len(matchingOptionPrefix)))
        Out(status, error, next, pIndex, res) ==
            [status |-> status, error |-> error, next |-> next, paramIndex |-> pIndex, result |-> res]
    IN  IF optMatch # Null
        THEN LET matchedOptName == optMatch.name
                 at == FirstIndex(options, LAMBDA o : o.name = matchedOptName \/ o.shortcut = Str(matchedOptName))
                 opt == options[at]
                 optValue == optMatch.value
             IN  IF at = 0 \/ opt.name = <<>>
                 THEN Out("error", Msg("Unknown option: ", matchingOptionPrefix \o matchedOptName), i, paramIndex, result)
                 ELSE IF opt.isSwitch
                 THEN IF Truthy(optValue)
                      THEN Out("error", Msg("Switch options can't have values: ", matchingOptionPrefix \o opt.name), i, paramIndex, result)
                      ELSE Out("continue", Null, i + 1, paramIndex, SetResult(result, Bound(opt, Bool(TRUE), FALSE)))
                 ELSE IF optValue = Undefined
                 THEN IF i + 1 >= Len(args)
                      THEN Out("error", Msg("No value for option: ", matchingOptionPrefix \o opt.name), i, paramIndex, result)
                      ELSE Out("continue", Null, i + 2, paramIndex,
                               SetResult(result, Bound(opt, Str(args[i + 2].value), FALSE)))
                 ELSE Out("continue", Null, i + 1, paramIndex, SetResult(result, Bound(opt, optValue, FALSE)))
        ELSE IF paramIndex >= Len(parameters)
        THEN Out("error", Msg("Too many arguments, expected ", DigitString(Len(parameters))), i, paramIndex, result)
        ELSE LET param == parameters[paramIndex + 1]
             IN  IF param.rest
                 THEN Out("break", Null, i, paramIndex,
                          SetResult(result, Bound(param, Arr([k \in 1..(Len(args) - i) |-> Str(args[i + k].value)]), FALSE)))
                 ELSE IF param.catchAll
                 THEN Out("break", Null, i, paramIndex,
                          SetResult(result, Bound(param, Str(StrSlice(str, arg.index)), FALSE)))
                 ELSE Out("continue", Null, i + 1, paramIndex + 1,
                          SetResult(result, Bound(param, Str(arg.value), FALSE)))

\* what one turn of the token loop does with token i (0-based) of args:
\* "error" (return { error }), "continue" (the next turn starts at token
\* next) or "break"
ScanToken(prefixes, signature, args, str, i, paramIndex, result) ==
    LET arg == args[i + 1]
        parameters == ParametersOf(signature)
        options == OptionsOf(signature)
        matchingOptionPrefix == IF arg.quoted THEN <<>> ELSE MatchingOptionPrefix(prefixes, arg.value)
        optMatch == IF matchingOptionPrefix = <<>> THEN Null
                    ELSE optMatchRegex(StrSlice(arg.value, Len(matchingOptionPrefix)))
        Out(status, error, next, pIndex, res) ==
            [status |-> status, error |-> error, next |-> next, paramIndex |-> pIndex, result |-> res]
    IN  IF optMatch # Null
        THEN LET matchedOptName == optMatch.name
                 at == FirstIndex(options, LAMBDA o : o.name = matchedOptName \/ o.shortcut = Str(matchedOptName))
                 opt == options[at]
                 optValue == optMatch.value
             IN  IF at = 0 \/ opt.name = <<>>
                 THEN Out("error", Msg("Unknown option: ", matchingOptionPrefix \o matchedOptName), i, paramIndex, result)
                 ELSE IF opt.isSwitch
                 THEN IF Truthy(optValue)
                      THEN Out("error", Msg("Switch options can't have values: ", matchingOptionPrefix \o opt.name), i, paramIndex, result)
                      ELSE Out("continue", Null, i + 1, paramIndex, SetResult(result, Bound(opt, Bool(TRUE), FALSE)))
                 ELSE IF optValue = Undefined
                 THEN IF i + 1 >= Len(args)
                      THEN Out("error", Msg("No value for option: ", matchingOptionPrefix \o opt.name), i, paramIndex, result)
                      ELSE Out("continue", Null, i + 2, paramIndex,
                               SetResult(result, Bound(opt, Str(args[i + 2].value), FALSE)))
                 ELSE Out("continue", Null, i + 1, paramIndex, SetResult(result, Bound(opt, optValue, FALSE)))
        ELSE IF paramIndex >= Len(parameters)
        THEN Out("error", Msg("Too many arguments, expected ", DigitString(Len(parameters))), i, paramIndex, result)
        ELSE LET param == parameters[paramIndex + 1]
             IN  IF param.rest
                 THEN Out("break", Null, i, paramIndex,
                          SetResult(result, Bound(param, Arr([k \in 1..(Len(args) - i) |-> Str(args[i + k].value)]), FALSE)))
                 ELSE IF param.catchAll
                 THEN Out("break", Null, i, paramIndex,
                          SetResult(result, Bound(param, Str(StrSlice(str, arg.index)), FALSE)))
                 ELSE Out("continue", Null, i + 1, paramIndex + 1,
                          SetResult(result, Bound(param, Str(arg.value), FALSE)))

RECURSIVE FillDefaults(_, _)
\* the loop over the options after the scan: an option that is not bound,
\* is no switch and has a truthy default gets the default
FillDefaults(options, result) ==
    IF options = <<>> THEN result
    ELSE LET opt == Head(options)
         IN  IF HasResult(result, opt.name) \/ opt.isSwitch \/ ~Truthy(opt.def)
             THEN FillDefaults(Tail(options), result)
             ELSE FillDefaults(Tail(options), SetResult(result, Bound(opt, opt.def, TRUE)))

\* a loop over the parameters that lets an unbound required one pass
FillParameters_SkipsRequired(parameters, result) == [values |-> result]

RECURSIVE FillParameters(_, _)
\* the loop over the parameters after the scan: { error } at the first
\* unbound required one, else the result with the truthy defaults filled in
FillParameters(parameters, result) ==
    IF parameters = <<>> THEN [values |-> result]
    ELSE LET param == Head(parameters)
         IN  IF HasResult(result, param.name)
             THEN FillParameters(Tail(parameters), result)
             ELSE IF param.required
             THEN Err(Msg("Missing required argument: ", param.name))
             ELSE IF Truthy(param.def)
             THEN FillParameters(Tail(parameters), SetResult(result, Bound(param, param.def, TRUE)))
             ELSE FillParameters(Tail(parameters), result)

\* the two loops between the scan and the conversions
FillAfterScan(signature, result) ==
    FillParameters(ParametersOf(signature), FillDefaults(OptionsOf(signature), result))

\* isError(value): value.error != null.  A result object has the key "error"
\* only if a parameter or option is named so.
isError(value) ==
    IF "error" \in DOMAIN value THEN TRUE
    ELSE "values" \in DOMAIN value /\ HasResult(value.values, <<"e", "r", "r", "o", "r">>)

\* value.error of a value isError() holds of
ErrorOf(value) ==
    IF "error" \in DOMAIN value THEN value.error
    ELSE value.values[FirstIndex(value.values, LAMBDA e : e.name = <<"e", "r", "r", "o", "r">>)]

(***************************************************************************)
(* Prefixes and triggers.  A string prefix p is compiled to /^p/i and a    *)
(* string trigger t to /^t(?=\s|$)/i, both with the string escaped.        *)
(***************************************************************************)
\* str.match(re) for re = ^a1|a2|...|an, with (?=\s|$) at its end when
\* lookahead: the length of the match, or -1.  "|" binds weakest, so ^ belongs
\* to the first alternative only and the lookahead to the last only; the
\* match is the leftmost one, and at one position the first alternative that
\* matches.
MatchAlternation(alts, lookahead, str) ==
    LET n == Len(alts)
        Tail0(q) == SubSeq(str, q + 1, Len(str))
        Fits(k, q) ==
            /\ StartsWith(Tail0(q), alts[k])
            /\ k = 1 => q = 0
            /\ (k = n /\ lookahead) =>
                  (Len(Tail0(q)) = Len(alts[k]) \/ IsWhitespace(Tail0(q)[Len(alts[k]) + 1]))
        Hits == {q \in 0..Len(str) : \E k \in 1..n : Fits(k, q)}
    IN  IF Hits = {} THEN -1
        ELSE LET q == CHOOSE q \in Hits : \A r \in Hits : q <= r
                 k == CHOOSE k \in 1..n : Fits(k, q) /\ \A j \in 1..(k - 1) : ~Fits(j, q)
             IN  Len(alts[k])

\* str.match(command.prefix): the length of the match, or -1
MatchPrefix(prefix, str) ==
    IF "source" \in DOMAIN prefix
    THEN IF StartsWith(str, prefix.source) THEN Len(prefix.source) ELSE -1
    ELSE MatchAlternation(prefix.alts, FALSE, str)

\* str.match(trigger): the length of the match, or -1
MatchTrigger(trigger, str) ==
    IF "source" \in DOMAIN trigger
    THEN LET n == Len(trigger.source)
         IN  IF StartsWith(str, trigger.source) /\ (Len(str) = n \/ IsWhitespace(str[n + 1]))
             THEN n ELSE -1
    ELSE MatchAlternation(trigger.alts, TRUE, str)

RECURSIVE MatchTriggers(_, _, _)
\* the loop over command.triggers: every trigger that matches what is left
\* of str is cut off it
MatchTriggers(triggers, str, matchedTrigger) ==
    IF triggers = <<>> THEN [matchedTrigger |-> matchedTrigger, str |-> str]
    ELSE LET n == MatchTrigger(Head(triggers), str)
         IN  IF n >= 0 THEN MatchTriggers(Tail(triggers), StrSlice(str, n), TRUE)
             ELSE MatchTriggers(Tail(triggers), str, matchedTrigger)

\* the head of tryMatchingCommand: Null, or the string left after the
\* prefix and the triggers
StripPrefixAndTrigger(command, str) ==
    LET n == IF command.prefix = Null THEN 0 ELSE MatchPrefix(command.prefix, str)
    IN  IF n < 0 THEN Null
        ELSE LET m == MatchTriggers(command.triggers, StrSlice(str, n), FALSE)
             IN  IF m.matchedTrigger THEN Str(m.str) ELSE Null

(***************************************************************************)
(* Filters are functions of the host application.  One call of             *)
(* findMatchingCommand calls each filter of a definition at most once, so  *)
(* a filter is modelled by what that call does: it resolves to true        *)
(* ("pass"), resolves to false ("fail") or rejects ("throw").              *)
(***************************************************************************)
FilterKinds == {"pass", "fail", "throw"}

\* await filter(...): the value it resolves to, or [thrown]
CallFilter(filter) ==
    CASE filter = "pass" -> [ok |-> Bool(TRUE)]
      [] filter = "fail" -> [ok |-> Bool(FALSE)]
      [] filter = "throw" -> [thrown |-> "Error"]

(***************************************************************************)
(* One call of findMatchingCommand or tryMatchingCommand: its local        *)
(* variables, its position pc, what it returned (ret) and the calls it     *)
(* made to the host's filters and converters (trace).                      *)
(***************************************************************************)
CallIds == {1, 2}

NoReturn == [kind |-> "none"]

IdleCall ==
    [pc |-> "idle", entry |-> "none", str |-> <<>>, ci |-> 0, command |-> Null,
     onlyErrors |-> TRUE, lastError |-> Null, lastErrorCmd |-> Null,
     fi |-> 0, rest |-> <<>>, parsedArguments |-> <<>>, si |-> 0, signatureMatchResult |-> Null,
     i |-> 0, paramIndex |-> 0, result |-> <<>>, vi |-> 0, ri |-> 0, values |-> <<>>,
     matchedCommand |-> Null, ret |-> NoReturn, trace |-> <<>>]

\* something done while matching c.command: a call of filter n (callee), the
\* tokenizing of what follows the trigger, a call of
\* tryMatchingArgumentsToSignature with signature n, or a call of the
\* converter (callee) of result entry n on the raw value arg
Event(op, c, n, callee, arg) ==
    [op |-> op, cmd |-> c.command.id, n |-> n, callee |-> callee, arg |-> arg]

\* the call ends: the promise resolves to ret, or rejects when ret is [thrown]
Finish(c, ret) ==
    [c EXCEPT !.pc = "done", !.ret = ret, !.fi = 0, !.i = 0, !.paramIndex = 0,
              !.result = <<>>, !.vi = 0, !.ri = 0, !.values = <<>>]

\* the end of findMatchingCommand, after the loop
ReturnAfterLoop(c) ==
    IF c.onlyErrors /\ c.lastError # Null
    THEN Finish(c, [error |-> c.lastError, command |-> c.lastErrorCmd])
    ELSE Finish(c, Null)

\* the head of the loop over this.commands: the next definition, with its
\* first pre-filter or tryMatchingCommand next, or the end of the loop
NextCommand(cmds, c) ==
    IF c.ci >= Len(cmds) THEN ReturnAfterLoop(c)
    ELSE LET command == cmds[c.ci + 1]
         IN  [c EXCEPT !.ci = c.ci + 1, !.command = command, !.si = 0,
                       !.fi = IF Len(command.preFilters) > 0 THEN 1 ELSE 0,
                       !.pc = IF Len(command.preFilters) > 0 THEN "pre" ELSE "match",
                       !.rest = <<>>, !.parsedArguments = <<>>,
                       !.i = 0, !.paramIndex = 0, !.result = <<>>, !.vi = 0, !.ri = 0,
                       !.values = <<>>, !.matchedCommand = Null]

\* findMatchingCommand(str) up to its first await
BeginFind(cmds, str) ==
    NextCommand(cmds, [IdleCall EXCEPT !.entry = "findMatchingCommand", !.str = str])

\* a pre-filter step that goes on to the next filter whatever the filter
\* returned
AfterPreFilter_IgnoresFalse(cmds, c) ==
    LET out == CallFilter(c.command.preFilters[c.fi])
        d == [c EXCEPT !.trace = Append(c.trace, Event("preFilter", c, c.fi, c.command.preFilters[c.fi], Null))]
    IN  IF "thrown" \in DOMAIN out THEN Finish(d, out)
        ELSE IF c.fi < Len(c.command.preFilters) THEN [d EXCEPT !.fi = c.fi + 1]
        ELSE [d EXCEPT !.fi = 0, !.pc = "match"]

\* a pre-filter step that takes a rejection for a false
AfterPreFilter_SwallowsRejection(cmds, c) ==
    LET out == CallFilter(c.command.preFilters[c.fi])
        d == [c EXCEPT !.trace = Append(c.trace, Event("preFilter", c, c.fi, c.command.preFilters[c.fi], Null))]
    IN  IF "thrown" \in DOMAIN out THEN NextCommand(cmds, d)
        ELSE IF ~Truthy(out.ok) THEN NextCommand(cmds, d)
        ELSE IF c.fi < Len(c.command.preFilters) THEN [d EXCEPT !.fi = c.fi + 1]
        ELSE [d EXCEPT !.fi = 0, !.pc = "match"]

\* await filter(command, filterContext) for pre-filter fi, and what follows
\* up to the next await
AfterPreFilter(cmds, c) ==
    LET out == CallFilter(c.command.preFilters[c.fi])
        d == [c EXCEPT !.trace = Append(c.trace, Event("preFilter", c, c.fi, c.command.preFilters[c.fi], Null))]
    IN  IF "thrown" \in DOMAIN out THEN Finish(d, out)
        ELSE IF ~Truthy(out.ok) THEN NextCommand(cmds, d)
        ELSE IF c.fi < Len(c.command.preFilters) THEN [d EXCEPT !.fi = c.fi + 1]
        ELSE [d EXCEPT !.fi = 0, !.pc = "match"]

\* tryMatchingCommand returned null
AfterNoMatch(cmds, c) ==
    IF c.entry = "tryMatchingCommand" THEN Finish(c, Null)
    ELSE NextCommand(cmds, c)

\* a search that ends at the first match error
AfterMatchError_Stops(cmds, c, error) ==
    Finish(c, IF c.entry = "tryMatchingCommand" THEN Err(error)
              ELSE [error |-> error, command |-> c.command])

\* a search that keeps the first match error instead of the last
AfterMatchError_KeepsFirst(cmds, c, error) ==
    IF c.entry = "tryMatchingCommand" THEN Finish(c, Err(error))
    ELSE IF c.lastErrorCmd # Null THEN NextCommand(cmds, c)
    ELSE NextCommand(cmds, [c EXCEPT !.lastError = error, !.lastErrorCmd = c.command])

\* tryMatchingCommand returned { error }
AfterMatchError(cmds, c, error) ==
    IF c.entry = "tryMatchingCommand" THEN Finish(c, Err(error))
    ELSE NextCommand(cmds, [c EXCEPT !.lastError = error, !.lastErrorCmd = c.command])

\* a match that leaves onlyErrors as it is until the post-filters have passed
AfterMatch_KeepsErrors(c, matchedCommand) ==
    IF c.entry = "tryMatchingCommand" THEN Finish(c, matchedCommand)
    ELSE LET d == [c EXCEPT !.matchedCommand = matchedCommand,
                            !.result = <<>>, !.vi = 0, !.ri = 0, !.values = <<>>]
         IN  IF Len(c.command.postFilters) > 0
             THEN [d EXCEPT !.pc = "post", !.fi = 1]
             ELSE Finish(d, matchedCommand)

\* tryMatchingCommand returned { ...command, values }
AfterMatch(c, matchedCommand) ==
    IF c.entry = "tryMatchingCommand" THEN Finish(c, matchedCommand)
    ELSE LET d == [c EXCEPT !.onlyErrors = FALSE, !.matchedCommand = matchedCommand,
                            !.result = <<>>, !.vi = 0, !.ri = 0, !.values = <<>>]
         IN  IF Len(c.command.postFilters) > 0
             THEN [d EXCEPT !.pc = "post", !.fi = 1]
             ELSE Finish(d, matchedCommand)

\* await filter(matchedCommand, filterContext) for post-filter fi, and what
\* follows up to the next await
AfterPostFilter(cmds, c) ==
    LET out == CallFilter(c.command.postFilters[c.fi])
        d == [c EXCEPT !.trace = Append(c.trace, Event("postFilter", c, c.fi, c.command.postFilters[c.fi], Null))]
    IN  IF "thrown" \in DOMAIN out THEN Finish(d, out)
        ELSE IF ~Truthy(out.ok) THEN NextCommand(cmds, d)
        ELSE IF c.fi < Len(c.command.postFilters) THEN [d EXCEPT !.fi = c.fi + 1]
        ELSE Finish(d, c.matchedCommand)

\* command.signatures.length > 0 ? command.signatures : [{}]
SignaturesOf(command) ==
    IF Len(command.signatures) > 0 THEN command.signatures ELSE << <<>> >>

\* the call of tryMatchingArgumentsToSignature for signature k, up to its token loop
StartSignature(c, k) ==
    [c EXCEPT !.si = k, !.i = 0, !.paramIndex = 0, !.result = <<>>, !.vi = 0, !.ri = 0,
              !.values = <<>>,
              !.trace = Append(c.trace, Event("signature", c, k, "", Null)),
              !.pc = IF Len(c.parsedArguments) > 0 THEN "scan" ELSE "fill"]

\* a loop over the signatures that gives up at the first error
AfterSignature_GivesUp(cmds, c, value) ==
    LET d == [c EXCEPT !.signatureMatchResult = value]
    IN  IF ~isError(value)
        THEN AfterMatch(d, [definition |-> c.command, values |-> value.values])
        ELSE AfterMatchError(cmds, d, ErrorOf(value))

\* tryMatchingArgumentsToSignature returned value for signature si: the rest
\* of the loop over the signatures and of tryMatchingCommand
AfterSignature(cmds, c, value) ==
    LET d == [c EXCEPT !.signatureMatchResult = value]
    IN  IF ~isError(value)
        THEN AfterMatch(d, [definition |-> c.command, values |-> value.values])
        ELSE IF c.si < Len(SignaturesOf(c.command)) THEN StartSignature(d, c.si + 1)
        ELSE AfterMatchError(cmds, d, ErrorOf(value))

\* tryMatchingCommand from its start to the token loop of the first signature
AfterTryMatchingCommand(cmds, c) ==
    LET left == StripPrefixAndTrigger(c.command, c.str)
    IN  IF left = Null THEN AfterNoMatch(cmds, c)
        ELSE StartSignature([c EXCEPT !.rest = left.s, !.parsedArguments = parseArguments(left.s),
                                      !.signatureMatchResult = Err(Msg("?", <<>>)),
                                      !.trace = Append(c.trace, Event("tokenize", c, 0, "", Null))], 1)

\* a token loop that goes on with the token after the option, whether the
\* option took it for its value or not
AfterScanToken_NoSkip(cmds, prefixes, c) ==
    LET signature == SignaturesOf(c.command)[c.si]
        out == ScanToken(prefixes, signature, c.parsedArguments, c.rest, c.i, c.paramIndex, c.result)
    IN  IF out.status = "error" THEN AfterSignature(cmds, c, Err(out.error))
        ELSE [c EXCEPT !.i = IF out.status = "break" THEN Len(c.parsedArguments) ELSE c.i + 1,
                       !.paramIndex = out.paramIndex, !.result = out.result,
                       !.pc = IF out.status = "break" \/ c.i + 1 >= Len(c.parsedArguments)
                              THEN "fill" ELSE "scan"]

\* one turn of the token loop
AfterScanToken(cmds, prefixes, c) ==
    LET signature == SignaturesOf(c.command)[c.si]
        out == ScanToken(prefixes, signature, c.parsedArguments, c.rest, c.i, c.paramIndex, c.result)
    IN  IF out.status = "error" THEN AfterSignature(cmds, c, Err(out.error))
        ELSE [c EXCEPT !.i = IF out.status = "break" THEN Len(c.parsedArguments) ELSE out.next,
                       !.paramIndex = out.paramIndex, !.result = out.result,
                       !.pc = IF out.status = "break" \/ out.next >= Len(c.parsedArguments)
                              THEN "fill" ELSE "scan"]

\* a loop over a rest value that visits its first element only
Elements_FirstOnly(value) ==
    IF value.t = "arr" THEN SubSeq(value.a, 1, 1)
    ELSE IF value.t = "str" THEN [k \in 1..Len(value.s) |-> Str(<<value.s[k]>>)]
    ELSE <<>>

\* the values a for...of loop over value visits
Elements(value) ==
    IF value.t = "arr" THEN value.a
    ELSE IF value.t = "str" THEN [k \in 1..Len(value.s) |-> Str(<<value.s[k]>>)]
    ELSE <<>>

RECURSIVE SeekConversion_SkipsDefaults(_, _)
\* a conversion loop that leaves the entries filled from a default alone
SeekConversion_SkipsDefaults(cmds, c) ==
    IF c.vi > Len(c.result) THEN AfterSignature(cmds, c, [values |-> c.result])
    ELSE LET e == c.result[c.vi]
         IN  IF e.usesDefaultValue
             THEN SeekConversion_SkipsDefaults(cmds, [c EXCEPT !.vi = c.vi + 1])
             ELSE IF e.source.option
             THEN IF e.source.isSwitch
                  THEN SeekConversion_SkipsDefaults(cmds, [c EXCEPT !.vi = c.vi + 1])
                  ELSE [c EXCEPT !.pc = "convert"]
             ELSE IF e.source.rest /\ c.ri > Len(Elements(e.value))
             THEN SeekConversion_SkipsDefaults(cmds, [c EXCEPT !.result[c.vi].value = Arr(c.values),
                                                               !.vi = c.vi + 1, !.ri = 1, !.values = <<>>])
             ELSE [c EXCEPT !.pc = "convert"]

RECURSIVE SeekConversion(_, _)
\* the conversion loop from entry vi (element ri of a rest value) up to its
\* next converter call; with none left the signature has matched
SeekConversion(cmds, c) ==
    IF c.vi > Len(c.result) THEN AfterSignature(cmds, c, [values |-> c.result])
    ELSE LET e == c.result[c.vi]
         IN  IF e.source.option
             THEN IF e.source.isSwitch
                  THEN SeekConversion(cmds, [c EXCEPT !.vi = c.vi + 1])
                  ELSE [c EXCEPT !.pc = "convert"]
             ELSE IF e.source.rest /\ c.ri > Len(Elements(e.value))
             THEN SeekConversion(cmds, [c EXCEPT !.result[c.vi].value = Arr(c.values),
                                                 !.vi = c.vi + 1, !.ri = 1, !.values = <<>>])
             ELSE [c EXCEPT !.pc = "convert"]

\* the two loops after the token loop, and the conversion loop up to its
\* first converter call
AfterFill(cmds, c) ==
    LET filled == FillAfterScan(SignaturesOf(c.command)[c.si], c.result)
    IN  IF "error" \in DOMAIN filled THEN AfterSignature(cmds, c, filled)
        ELSE SeekConversion(cmds, [c EXCEPT !.result = filled.values, !.vi = 1, !.ri = 1,
                                            !.values = <<>>])

\* the error returned when the converter of entry e throws a TypeConversionError
ConversionError(e, message) ==
    IF e.source.option
    THEN Err(Msg("Could not convert option ", e.name \o <<" ", "t", "o", " ", "t", "y", "p", "e", " ">>))
    ELSE Err(Msg("Could not convert argument ", e.name \o <<"'", "s", " ", "t", "y", "p", "e", ":", " ">> \o message))

\* a conversion step that goes on to the next value after a TypeConversionError
AfterConvert_KeepsGoing(cmds, c) ==
    LET e == c.result[c.vi]
        isRest == ~e.source.option /\ e.source.rest
        raw == IF isRest THEN Elements(e.value)[c.ri] ELSE e.value
        out == Convert(e.source.type, raw)
        d == [c EXCEPT !.trace = Append(c.trace, Event("convert", c, c.vi, e.source.type, raw))]
    IN  IF "thrown" \in DOMAIN out THEN Finish(d, out)
        ELSE IF isRest
        THEN SeekConversion(cmds, [d EXCEPT !.values = Append(c.values, IF "tce" \in DOMAIN out THEN Null ELSE out.ok),
                                            !.ri = c.ri + 1])
        ELSE SeekConversion(cmds, [d EXCEPT !.result[c.vi].value = IF "tce" \in DOMAIN out THEN Null ELSE out.ok,
                                            !.vi = c.vi + 1])

\* a conversion step that catches every error of a converter
AfterConvert_CatchesAll(cmds, c) ==
    LET e == c.result[c.vi]
        isRest == ~e.source.option /\ e.source.rest
        raw == IF isRest THEN Elements(e.value)[c.ri] ELSE e.value
        out == Convert(e.source.type, raw)
        d == [c EXCEPT !.trace = Append(c.trace, Event("convert", c, c.vi, e.source.type, raw))]
    IN  IF "thrown" \in DOMAIN out THEN AfterSignature(cmds, d, ConversionError(e, <<>>))
        ELSE IF "tce" \in DOMAIN out THEN AfterSignature(cmds, d, ConversionError(e, out.tce))
        ELSE IF isRest
        THEN SeekConversion(cmds, [d EXCEPT !.values = Append(c.values, out.ok), !.ri = c.ri + 1])
        ELSE SeekConversion(cmds, [d EXCEPT !.result[c.vi].value = out.ok, !.vi = c.vi + 1])

\* await type(value, context) for entry vi (element ri of a rest value), and
\* what follows up to the next await
AfterConvert(cmds, c) ==
    LET e == c.result[c.vi]
        isRest == ~e.source.option /\ e.source.rest
        raw == IF isRest THEN Elements(e.value)[c.ri] ELSE e.value
        out == Convert(e.source.type, raw)
        d == [c EXCEPT !.trace = Append(c.trace, Event("convert", c, c.vi, e.source.type, raw))]
    IN  IF "thrown" \in DOMAIN out THEN Finish(d, out)
        ELSE IF "tce" \in DOMAIN out THEN AfterSignature(cmds, d, ConversionError(e, out.tce))
        ELSE IF isRest
        THEN SeekConversion(cmds, [d EXCEPT !.values = Append(c.values, out.ok), !.ri = c.ri + 1])
        ELSE SeekConversion(cmds, [d EXCEPT !.result[c.vi].value = out.ok, !.vi = c.vi + 1])

\* tryMatchingCommand(command, str) called by the host, up to its first await
BeginTry(command, str) ==
    [IdleCall EXCEPT !.entry = "tryMatchingCommand", !.str = str, !.command = command,
                     !.pc = "match"]

(***************************************************************************)
(* parseSignature: the grammar of signature strings.  An object is a       *)
(* record of the keys it has; the result is the sequence of its entries in *)
(* the order Object.entries gives them, each with its key as `name`.       *)
(***************************************************************************)
\* the keys of defaultTypeConverters
TypeNames ==
    { <<"s", "t", "r", "i", "n", "g">>, <<"n", "u", "m", "b", "e", "r">>, <<"b", "o", "o", "l">> }

\* types[literal], as the model names the converters
TypeOf(literal) ==
    IF literal = <<"s", "t", "r", "i", "n", "g">> THEN "string"
    ELSE IF literal = <<"n", "u", "m", "b", "e", "r">> THEN "number"
    ELSE "bool"

\* the state of parseSignature before the first character; thrown is the
\* message of the Error thrown, "" while there is none
SignatureInit ==
    [result |-> <<>>, currentItem |-> "null", currentOption |-> <<>>, currentParameter |-> <<>>,
     currentName |-> <<>>, state |-> "null", currentLiteral |-> <<>>, quoted |-> FALSE,
     thrown |-> ""]

\* object[key] = value on an object given as a record of its keys
WithKey(object, key, value) == (key :> value) @@ object

\* the key is an array index, which an object lists before its other keys
IsIndexKey(name) ==
    /\ name # <<>>
    /\ \A j \in 1..Len(name) : IsDigit(name[j])
    /\ Len(name) = 1 \/ name[1] # "0"

\* result[entry.name] = entry: a key the object has keeps its place; a new
\* index key goes among the index keys in ascending order, any other new
\* key goes last
PutEntry(result, entry) ==
    LET at == FirstIndex(result, LAMBDA e : e.name = entry.name)
        Before(e) ==
            IF IsIndexKey(entry.name)
            THEN IsIndexKey(e.name) /\ DigitsToNat(e.name) < DigitsToNat(entry.name)
            ELSE TRUE
        n == Cardinality({k \in 1..Len(result) : Before(result[k])})
    IN  IF at # 0 THEN [result EXCEPT ![at] = entry]
        ELSE SubSeq(result, 1, n) \o <<entry>> \o SubSeq(result, n + 1, Len(result))

\* flush() of parseSignature
flush(q) ==
    IF q.currentLiteral = <<>> THEN q
    ELSE IF q.state = "name"
    THEN [q EXCEPT !.currentName = q.currentLiteral, !.currentLiteral = <<>>]
    ELSE IF q.state = "type"
    THEN IF q.currentLiteral \notin TypeNames
         THEN [q EXCEPT !.thrown = "Unknown type"]
         ELSE IF q.currentItem = "parameter"
         THEN [q EXCEPT !.currentParameter = WithKey(q.currentParameter, "type", TypeOf(q.currentLiteral)),
                        !.currentLiteral = <<>>]
         ELSE IF q.currentItem = "option"
         THEN [q EXCEPT !.currentOption = WithKey(q.currentOption, "type", TypeOf(q.currentLiteral)),
                        !.currentLiteral = <<>>]
         ELSE [q EXCEPT !.currentLiteral = <<>>]
    ELSE IF q.state = "value"
    THEN IF q.currentItem = "parameter"
         THEN [q EXCEPT !.currentParameter = WithKey(q.currentParameter, "def", q.currentLiteral),
                        !.currentLiteral = <<>>]
         ELSE IF q.currentItem = "option"
         THEN [q EXCEPT !.currentOption = WithKey(q.currentOption, "def", q.currentLiteral),
                        !.currentLiteral = <<>>]
         ELSE [q EXCEPT !.currentLiteral = <<>>]
    ELSE IF q.state = "shortcut"
    THEN IF q.currentItem # "option"
         THEN [q EXCEPT !.thrown = "Shortcuts can only be specified for options"]
         ELSE [q EXCEPT !.currentOption = WithKey(q.currentOption, "shortcut", q.currentLiteral),
                        !.currentLiteral = <<>>]
    ELSE [q EXCEPT !.thrown = "Can't flush from empty state"]

\* a saveCurrentParameter() that does not start a new currentParameter
saveCurrentParameter_Carries(q) ==
    [q EXCEPT !.result = PutEntry(q.result,
                            WithKey(q.currentParameter @@ [option |-> FALSE, type |-> "string"],
                                    "name", q.currentName)),
              !.currentName = <<>>,
              !.currentItem = "null", !.state = "null"]

\* saveCurrentParameter() of parseSignature, with the default type string
saveCurrentParameter(q) ==
    [q EXCEPT !.result = PutEntry(q.result,
                            WithKey(q.currentParameter @@ [option |-> FALSE, type |-> "string"],
                                    "name", q.currentName)),
              !.currentParameter = <<>>, !.currentName = <<>>,
              !.currentItem = "null", !.state = "null"]

\* saveCurrentOption() of parseSignature
saveCurrentOption(q) ==
    [q EXCEPT !.result = PutEntry(q.result,
                            WithKey(q.currentOption @@ [option |-> TRUE, type |-> "bool", isSwitch |-> TRUE],
                                    "name", q.currentName)),
              !.currentOption = <<>>, !.currentName = <<>>,
              !.currentItem = "null", !.state = "null"]

\* chars.slice(i, i + 3)
Slice3(chars, i) == SubSeq(chars, i + 1, IF i + 3 > Len(chars) THEN Len(chars) ELSE i + 3)

\* f(flush()) where flush() did not throw
AfterFlush(q, F(_)) == IF flush(q).thrown # "" THEN flush(q) ELSE F(flush(q))

\* one turn of the loop of parseSignature at the 0-based position i: the
\* state afterwards (the position moves on by SignatureStep)
SignatureChar(q, chars, i) ==
    LET char == chars[i + 1]
    IN  IF char \in quoteChars THEN [q EXCEPT !.quoted = ~q.quoted]
        ELSE IF q.quoted THEN [q EXCEPT !.currentLiteral = Append(q.currentLiteral, char)]
        ELSE IF char = "<"
        THEN [q EXCEPT !.state = "name", !.currentItem = "parameter",
                       !.currentParameter = WithKey(q.currentParameter, "required", TRUE)]
        ELSE IF char = "["
        THEN [q EXCEPT !.state = "name", !.currentItem = "parameter",
                       !.currentParameter = WithKey(q.currentParameter, "required", FALSE)]
        ELSE IF char = "-"
        THEN [q EXCEPT !.state = "name", !.currentItem = "option"]
        ELSE IF char = "|" /\ q.currentItem = "option" /\ q.state = "name"
        THEN AfterFlush(q, LAMBDA f : [f EXCEPT !.state = "shortcut"])
        ELSE IF char = ":"
        THEN AfterFlush(q, LAMBDA f :
                 [f EXCEPT !.state = "type",
                           !.currentOption = IF f.currentItem = "option"
                                             THEN WithKey(f.currentOption, "isSwitch", FALSE)
                                             ELSE f.currentOption])
        ELSE IF char = "="
        THEN AfterFlush(q, LAMBDA f : [f EXCEPT !.state = "value"])
        ELSE IF char = "$"
        THEN AfterFlush(q, LAMBDA f :
                 [f EXCEPT !.currentParameter = WithKey(f.currentParameter, "catchAll", TRUE)])
        ELSE IF char = "." /\ Slice3(chars, i) = <<".", ".", ".">>
        THEN AfterFlush(q, LAMBDA f :
                 [f EXCEPT !.currentParameter = WithKey(f.currentParameter, "rest", TRUE)])
        ELSE IF IsWhitespace(char)
        THEN IF q.currentItem = "option" THEN AfterFlush(q, saveCurrentOption)
             ELSE IF q.currentItem = "parameter"
             THEN [q EXCEPT !.currentLiteral = Append(q.currentLiteral, char)]
             ELSE q
        ELSE IF char \in {">", "]"} THEN AfterFlush(q, saveCurrentParameter)
        ELSE [q EXCEPT !.currentLiteral = Append(q.currentLiteral, char)]

\* how far one turn of the loop moves on: three characters for `...` read
\* as the rest marker, one otherwise
SignatureStep(q, chars, i) ==
    IF /\ chars[i + 1] = "."
       /\ ~q.quoted
       /\ Slice3(chars, i) = <<".", ".", ".">>
    THEN 3 ELSE 1

RECURSIVE SignatureLoop(_, _, _)
\* the loop of parseSignature from the 0-based position i on; it ends where
\* an Error is thrown
SignatureLoop(q, chars, i) ==
    IF i >= Len(chars) \/ q.thrown # "" THEN q
    ELSE SignatureLoop(SignatureChar(q, chars, i), chars, i + SignatureStep(q, chars, i))

\* parseSignature(str) with the default types: the object it returns, as
\* the sequence of its entries, or the message of the Error it throws
parseSignature(str) ==
    LET q == SignatureLoop(SignatureInit, str, 0)
        r == IF q.thrown # "" THEN q
             ELSE IF q.currentItem = "option" THEN AfterFlush(q, saveCurrentOption)
             ELSE IF q.currentItem = "parameter"
             THEN [q EXCEPT !.thrown = "Unterminated parameter at the end"]
             ELSE q
    IN  [threw |-> r.thrown # "", message |-> r.thrown,
         result |-> IF r.thrown # "" THEN <<>> ELSE r.result]

(***************************************************************************)
(* The manager: its constructor and add().                                 *)
(***************************************************************************)
defaultOptionPrefixes == << <<"-">>, <<"-", "-">> >>

\* a constructor that keeps the prefixes in the order it got them
SortPrefixes_AsGiven(list) == list

RECURSIVE SortPrefixes(_)
\* Array.prototype.sort with the comparator of the constructor: a stable
\* sort, longest first
SortPrefixes(list) ==
    IF list = <<>> THEN <<>>
    ELSE LET longest == CHOOSE k \in 1..Len(list) :
                            /\ \A j \in 1..Len(list) : Len(list[j]) <= Len(list[k])
                            /\ \A j \in 1..(k - 1) : Len(list[j]) < Len(list[k])
         IN  <<list[longest]>> \o
             SortPrefixes(SubSeq(list, 1, longest - 1) \o SubSeq(list, longest + 1, Len(list)))

\* new RegExp("^" + escape(text), "i")
RegExpOf(text) == [source |-> text]

\* new RegExp("^" + re.source, re.flags), with (?=\s|$) after the source for
\* a trigger
RegExpFrom(re) == [alts |-> re.alts]

RECURSIVE ValidParameters_OptionalOnly(_, _, _, _)
\* a validation loop that looks at optional parameters only
ValidParameters_OptionalOnly(entries, hadOptional, hadRest, hadCatchAll) ==
    IF entries = <<>> THEN TRUE
    ELSE LET param == Head(entries)
         IN  IF param.option
             THEN ValidParameters_OptionalOnly(Tail(entries), hadOptional, hadRest, hadCatchAll)
             ELSE IF hadOptional THEN FALSE
             ELSE ValidParameters_OptionalOnly(Tail(entries), ~param.required, hadRest, hadCatchAll)

RECURSIVE ValidParameters(_, _, _, _)
\* the validation loop of add() over one signature: FALSE where it throws
ValidParameters(entries, hadOptional, hadRest, hadCatchAll) ==
    IF entries = <<>> THEN TRUE
    ELSE LET param == Head(entries)
         IN  IF param.option THEN ValidParameters(Tail(entries), hadOptional, hadRest, hadCatchAll)
             ELSE IF ~param.required /\ hadOptional THEN FALSE
             ELSE IF param.required /\ hadOptional THEN FALSE
             ELSE IF hadRest THEN FALSE
             ELSE IF hadCatchAll THEN FALSE
             ELSE ValidParameters(Tail(entries), hadOptional \/ ~param.required,
                                  hadRest \/ param.rest, hadCatchAll \/ param.catchAll)

\* add() validating the first signature only
ValidSignatures_FirstOnly(signatures) ==
    signatures = <<>> \/ ValidParameters(signatures[1], FALSE, FALSE, FALSE)

\* add() gets through its validation of the signatures
ValidSignatures(signatures) ==
    \A k \in 1..Len(signatures) : ValidParameters(signatures[k], FALSE, FALSE, FALSE)

\* a definition that always gets the id 1
Definition_SameId(id, defPrefix, triggers, signatures, config) ==
    [id |-> 1,
     prefix |-> defPrefix,
     triggers |-> [k \in 1..Len(triggers) |-> RegExpOf(triggers[k].s)],
     signatures |-> signatures,
     preFilters |-> config.preFilters,
     postFilters |-> config.postFilters]

\* the definition add() builds; config.prefix is Undefined when not given
Definition(id, defPrefix, triggers, signatures, config) ==
    [id |-> id,
     prefix |-> IF config.prefix = Undefined THEN defPrefix
                ELSE IF config.prefix = Null THEN Null
                ELSE IF config.prefix.t = "str" THEN RegExpOf(config.prefix.s)
                ELSE RegExpFrom(config.prefix),
     triggers |-> [k \in 1..Len(triggers) |->
                      IF triggers[k].t = "str" THEN RegExpOf(triggers[k].s)
                      ELSE RegExpFrom(triggers[k])],
     signatures |-> signatures,
     preFilters |-> config.preFilters,
     postFilters |-> config.postFilters]

\* list.splice(start, 1): a negative start counts from the end of the list
Splice(list, start) ==
    LET from == IF start < 0 THEN (IF Len(list) + start < 0 THEN 0 ELSE Len(list) + start)
                ELSE IF start > Len(list) THEN Len(list) ELSE start
    IN  SubSeq(list, 1, from) \o SubSeq(list, from + 2, Len(list))

\* indexToRemove of remove(defOrId): findIndex by id for a number, indexOf
\* for a definition; 0-based, -1 when there is none
IndexToRemove(cmds, defOrId) ==
    IF "t" \in DOMAIN defOrId
    THEN FirstIndex(cmds, LAMBDA c : c.id = defOrId.n) - 1
    ELSE FirstIndex(cmds, LAMBDA c : c = defOrId) - 1

\* remove() without its test of indexToRemove
remove_NoGuard(cmds, defOrId) == Splice(cmds, IndexToRemove(cmds, defOrId))

\* remove(defOrId): this.commands afterwards
remove(cmds, defOrId) ==
    IF IndexToRemove(cmds, defOrId) # -1
    THEN Splice(cmds, IndexToRemove(cmds, defOrId))
    ELSE cmds

\* getAll() handing out this.commands itself
getAll_SameArray(cmds) == [same |-> TRUE, fresh |-> TRUE, items |-> cmds]

\* getAll(): [...this.commands], a new array with the same elements; `same`
\* tells whether the array is this.commands itself, `fresh` whether the
\* host has left it as it got it
getAll(cmds) == [same |-> FALSE, fresh |-> TRUE, items |-> cmds]

\* the array the host holds after this.commands became cmds: an array that
\* is this.commands itself shows the change
Seen(held, cmds) ==
    IF held # Null /\ held.same THEN [held EXCEPT !.items = cmds] ELSE held

(***************************************************************************)
(* A call run from its start to its end, as one value: what the promise of *)
(* findMatchingCommand settles to when nothing else runs in between.       *)
(***************************************************************************)
\* the step of call c at its position
StepCall(cmds, prefixes, c) ==
    CASE c.pc = "pre" -> AfterPreFilter(cmds, c)
      [] c.pc = "match" -> AfterTryMatchingCommand(cmds, c)
      [] c.pc = "scan" -> AfterScanToken(cmds, prefixes, c)
      [] c.pc = "fill" -> AfterFill(cmds, c)
      [] c.pc = "convert" -> AfterConvert(cmds, c)
      [] c.pc = "post" -> AfterPostFilter(cmds, c)

RECURSIVE RunCall(_, _, _)
RunCall(cmds, prefixes, c) ==
    IF c.pc \in {"idle", "done"} THEN c ELSE RunCall(cmds, prefixes, StepCall(cmds, prefixes, c))

\* await findMatchingCommand(str) on the registry cmds
findMatchingCommand(cmds, prefixes, str) == RunCall(cmds, prefixes, BeginFind(cmds, str)).ret

\* await tryMatchingCommand(command, str)
tryMatchingCommand(command, prefixes, str) == RunCall(<<>>, prefixes, BeginTry(command, str)).ret

(***************************************************************************)
(* The inputs of the model.                                                *)
(***************************************************************************)
foo == <<"f", "o", "o">>
bar == <<"b", "a", "r">>
baz == <<"b", "a", "z">>
cmd == <<"c", "m", "d">>
arg == <<"a", "r", "g">>
arg1 == <<"a", "r", "g", "1">>
arg2 == <<"a", "r", "g", "2">>
opt == <<"o", "p", "t">>
sw == <<"s", "w">>

NoConfig == [prefix |-> Undefined, preFilters |-> <<>>, postFilters |-> <<>>]

\* the triggers and signatures of the filter specification: foo <bar:number>,
\* foo <bar:string>, foo with the overloads <bar:boom> (its converter throws
\* an error of the host) and <baz:string>, and bar <bar:number>
FindCommands ==
    { <<foo, << <<Parameter(bar, "number")>> >> >>,
      <<foo, << <<Parameter(bar, "string")>> >> >>,
      <<foo, << <<Parameter(bar, "boom")>>, <<Parameter(baz, "string")>> >> >>,
      <<bar, << <<Parameter(bar, "number")>> >> >> }

\* the filter lists of the filter specification
FindConfigs ==
    { [prefix |-> Undefined, preFilters |-> f[1], postFilters |-> f[2]] :
        f \in { << <<>>, <<>> >>,
                << <<"pass">>, <<"pass">> >>,
                << <<"pass", "fail", "throw">>, <<>> >>,
                << <<>>, <<"pass", "fail", "throw">> >>,
                << <<"throw">>, <<>> >>,
                << <<>>, <<"throw">> >> } }

\* "!foo 10" and "!foo x"
FindInputs ==
    { <<"!", "f", "o", "o", " ", "1", "0">>,
      <<"!", "f", "o", "o", " ", "x">> }

(***************************************************************************)
(* The state machine.                                                      *)
(***************************************************************************)
\* new CommandManager({ prefix: "!" })
Init ==
    /\ commands = <<>>
    /\ commandId = 0
    /\ defaultPrefix = RegExpOf(<<"!">>)
    /\ optionPrefixes = SortPrefixes(defaultOptionPrefixes)
    /\ calls = [id \in CallIds |-> IdleCall]
    /\ lastAdd = Null
    /\ snapshot = Null
    /\ lastRemove = Null
    /\ lastParse = Null

\* no call of findMatchingCommand or tryMatchingCommand has been made yet
NoCallYet == \A id \in CallIds : calls[id].pc = "idle"

\* an add() that takes the next id before it validates the signatures
Add_CountsFailures(triggers, signatures, config) ==
    /\ NoCallYet
    /\ lastAdd' = [signatures |-> signatures, threw |-> ~ValidSignatures(signatures),
                   afterThrow |-> IF lastAdd = Null THEN FALSE ELSE lastAdd.threw]
    /\ commandId' = commandId + 1
    /\ commands' = IF ValidSignatures(signatures)
                   THEN Append(commands, Definition(commandId + 1, defaultPrefix, triggers, signatures, config))
                   ELSE commands
    /\ snapshot' = Seen(snapshot, commands')
    /\ UNCHANGED <<defaultPrefix, optionPrefixes, calls, lastRemove, lastParse>>

\* add(triggers, signatures, config): it throws out of its validation loop,
\* or registers the definition under the next id
Add(triggers, signatures, config) ==
    /\ NoCallYet
    /\ lastAdd' = [signatures |-> signatures, threw |-> ~ValidSignatures(signatures),
                   afterThrow |-> IF lastAdd = Null THEN FALSE ELSE lastAdd.threw]
    /\ IF ValidSignatures(signatures)
       THEN /\ commandId' = commandId + 1
            /\ commands' = Append(commands, Definition(commandId + 1, defaultPrefix, triggers, signatures, config))
       ELSE UNCHANGED <<commands, commandId>>
    /\ snapshot' = Seen(snapshot, commands')
    /\ UNCHANGED <<defaultPrefix, optionPrefixes, calls, lastRemove, lastParse>>

\* remove(defOrId)
Remove(defOrId) ==
    /\ NoCallYet
    /\ commands' = remove(commands, defOrId)
    /\ lastRemove' = defOrId
    /\ snapshot' = Seen(snapshot, commands')
    /\ UNCHANGED <<commandId, defaultPrefix, optionPrefixes, calls, lastAdd, lastParse>>

\* the host calls parseArguments(str) itself, before its searches
ParseArguments(str) ==
    /\ NoCallYet
    /\ lastParse' = [fn |-> "parseArguments", str |-> str, args |-> parseArguments(str),
                     joined |-> FALSE]
    /\ UNCHANGED <<commands, commandId, defaultPrefix, optionPrefixes, calls, lastAdd,
                   snapshot, lastRemove>>

RECURSIVE Join(_)
\* texts.join(" ")
Join(texts) ==
    IF texts = <<>> THEN <<>>
    ELSE IF Len(texts) = 1 THEN texts[1]
    ELSE texts[1] \o <<" ">> \o Join(Tail(texts))

\* the host joins the texts of the tokens it got with single spaces and
\* calls parseArguments on the result
Retokenize ==
    /\ NoCallYet
    /\ lastParse # Null
    /\ lastParse.fn = "parseArguments"
    /\ LET str == Join([k \in 1..Len(lastParse.args) |-> lastParse.args[k].value])
       IN  lastParse' = [fn |-> "parseArguments", str |-> str, args |-> parseArguments(str),
                         joined |-> TRUE]
    /\ UNCHANGED <<commands, commandId, defaultPrefix, optionPrefixes, calls, lastAdd,
                   snapshot, lastRemove>>

\* the host calls parseSignature(str)
ParseSignature(str) ==
    /\ NoCallYet
    /\ lastParse' = [fn |-> "parseSignature", str |-> str, ret |-> parseSignature(str)]
    /\ UNCHANGED <<commands, commandId, defaultPrefix, optionPrefixes, calls, lastAdd,
                   snapshot, lastRemove>>

\* the host calls getAll() and keeps the array
GetAll ==
    /\ snapshot' = getAll(commands)
    /\ UNCHANGED <<commands, commandId, defaultPrefix, optionPrefixes, calls, lastAdd,
                   lastRemove, lastParse>>

\* the host calls pop() on the array it holds
PopSnapshot ==
    /\ snapshot # Null
    /\ snapshot.items # <<>>
    /\ LET popped == SubSeq(snapshot.items, 1, Len(snapshot.items) - 1)
       IN  /\ snapshot' = [snapshot EXCEPT !.items = popped, !.fresh = FALSE]
           /\ commands' = IF snapshot.same THEN popped ELSE commands
    /\ UNCHANGED <<commandId, defaultPrefix, optionPrefixes, calls, lastAdd, lastRemove, lastParse>>

\* the host calls findMatchingCommand(str)
FindBegin(id, str) ==
    /\ calls[id].pc = "idle"
    /\ calls' = [calls EXCEPT ![id] = BeginFind(commands, str)]
    /\ UNCHANGED <<commands, commandId, defaultPrefix, optionPrefixes, lastAdd, snapshot, lastRemove, lastParse>>

\* the host calls tryMatchingCommand(commands[k], str)
TryBegin(id, k, str) ==
    /\ calls[id].pc = "idle"
    /\ k \in 1..Len(commands)
    /\ calls' = [calls EXCEPT ![id] = BeginTry(commands[k], str)]
    /\ UNCHANGED <<commands, commandId, defaultPrefix, optionPrefixes, lastAdd, snapshot, lastRemove, lastParse>>

\* a pre-filter settles
PreFilter(id) ==
    /\ calls[id].pc = "pre"
    /\ calls' = [calls EXCEPT ![id] = AfterPreFilter(commands, calls[id])]
    /\ UNCHANGED <<commands, commandId, defaultPrefix, optionPrefixes, lastAdd, snapshot, lastRemove, lastParse>>

\* tryMatchingCommand starts: prefix, triggers, tokens
Match(id) ==
    /\ calls[id].pc = "match"
    /\ calls' = [calls EXCEPT ![id] = AfterTryMatchingCommand(commands, calls[id])]
    /\ UNCHANGED <<commands, commandId, defaultPrefix, optionPrefixes, lastAdd, snapshot, lastRemove, lastParse>>

\* a token loop whose paramIndex belongs to the manager: every call goes
\* on from the parameter the first call has reached
Scan_SharedParamIndex(id) ==
    /\ calls[id].pc = "scan"
    /\ calls' = [calls EXCEPT ![id] = AfterScanToken(commands, optionPrefixes,
                                                     [calls[id] EXCEPT !.paramIndex = calls[1].paramIndex])]
    /\ UNCHANGED <<commands, commandId, defaultPrefix, optionPrefixes, lastAdd, snapshot, lastRemove, lastParse>>

\* one turn of the token loop of tryMatchingArgumentsToSignature
Scan(id) ==
    /\ calls[id].pc = "scan"
    /\ calls' = [calls EXCEPT ![id] = AfterScanToken(commands, optionPrefixes, calls[id])]
    /\ UNCHANGED <<commands, commandId, defaultPrefix, optionPrefixes, lastAdd, snapshot, lastRemove, lastParse>>

\* the defaults and the required parameters, after the token loop
Fill(id) ==
    /\ calls[id].pc = "fill"
    /\ calls' = [calls EXCEPT ![id] = AfterFill(commands, calls[id])]
    /\ UNCHANGED <<commands, commandId, defaultPrefix, optionPrefixes, lastAdd, snapshot, lastRemove, lastParse>>

\* a type converter settles
ConvertValue(id) ==
    /\ calls[id].pc = "convert"
    /\ calls' = [calls EXCEPT ![id] = AfterConvert(commands, calls[id])]
    /\ UNCHANGED <<commands, commandId, defaultPrefix, optionPrefixes, lastAdd, snapshot, lastRemove, lastParse>>

\* a post-filter settles
PostFilter(id) ==
    /\ calls[id].pc = "post"
    /\ calls' = [calls EXCEPT ![id] = AfterPostFilter(commands, calls[id])]
    /\ UNCHANGED <<commands, commandId, defaultPrefix, optionPrefixes, lastAdd, snapshot, lastRemove, lastParse>>

\* a step of call id
Step(id) ==
    \/ PreFilter(id)
    \/ Match(id)
    \/ Scan(id)
    \/ Fill(id)
    \/ ConvertValue(id)
    \/ PostFilter(id)

\* the filter specification: definitions with pre- and post-filters, one
\* call of findMatchingCommand
Next ==
    \/ \E d \in FindCommands, f \in FindConfigs :
          Len(commands) < MaxCommands /\ Add(<<Str(d[1])>>, d[2], f)
    \/ \E str \in FindInputs : FindBegin(1, str)
    \/ \E str \in FindInputs, k \in 1..MaxCommands : TryBegin(1, k, str)
    \/ Step(1)

Spec == Init /\ [][Next]_vars

(***************************************************************************)
(* What one definition does with an input, taken alone.                    *)
(***************************************************************************)
\* what a list of filters comes to: "pass", or the first filter that does
\* not pass, "fail" or "throw"
FiltersOutcome(filters) ==
    LET at == FirstIndex(filters, LAMBDA f : f # "pass")
    IN  IF at = 0 THEN "pass" ELSE filters[at]

\* what tryMatchingCommand settles to for definition d
TryResult(d, str) == tryMatchingCommand(d, optionPrefixes, str)

\* the part definition d plays in a search for str
Status(d, str) ==
    LET pre == FiltersOutcome(d.preFilters)
        r == TryResult(d, str)
        post == FiltersOutcome(d.postFilters)
    IN  IF pre = "fail" THEN "skipped"
        ELSE IF pre = "throw" THEN "throws"
        ELSE IF r = Null THEN "nomatch"
        ELSE IF "thrown" \in DOMAIN r THEN "throws"
        ELSE IF "error" \in DOMAIN r THEN "error"
        ELSE IF post = "fail" THEN "postfail"
        ELSE IF post = "throw" THEN "throws"
        ELSE "success"

\* the call the filter specification follows
theCall == calls[1]

\* the call is one of findMatchingCommand and has settled
FindDone == theCall.pc = "done" /\ theCall.entry = "findMatchingCommand"

\* definition k succeeds and no definition before it succeeds or throws
FirstSuccess(k) ==
    /\ Status(commands[k], theCall.str) = "success"
    /\ \A j \in 1..(k - 1) :
          Status(commands[j], theCall.str) \in {"skipped", "nomatch", "error", "postfail"}

\* the host function called in trace event e threw an error that is not a
\* TypeConversionError
Threw(e) ==
    \/ e.op \in {"preFilter", "postFilter"} /\ "thrown" \in DOMAIN CallFilter(e.callee)
    \/ e.op = "convert" /\ "thrown" \in DOMAIN Convert(e.callee, e.arg)

\* seq without its k-th element
RemoveAt(seq, k) == SubSeq(seq, 1, k - 1) \o SubSeq(seq, k + 1, Len(seq))

C2_ExhaustedResult ==
    (FindDone /\ \A k \in 1..Len(commands) :
                    Status(commands[k], theCall.str) \in {"skipped", "nomatch", "error"}) =>
        LET failed == {k \in 1..Len(commands) : Status(commands[k], theCall.str) = "error"}
            last == CHOOSE k \in failed : \A j \in failed : j <= k
        IN  IF failed = {} THEN theCall.ret = Null
            ELSE theCall.ret = [error |-> TryResult(commands[last], theCall.str).error,
                                command |-> commands[last]]

\* two definitions fail in the binding and the error names the second
C2_Witness ==
    /\ FindDone
    /\ Len(commands) = 2
    /\ Status(commands[1], theCall.str) = "error"
    /\ Status(commands[2], theCall.str) = "error"
    /\ "command" \in DOMAIN theCall.ret
    /\ theCall.ret.command = commands[2]

(***************************************************************************)
(* C4: a pre-filter returning false skips its definition: no later         *)
(* pre-filter of it, no binding, no converter and no post-filter of it is  *)
(* called, no error is recorded for it, and a later definition can be      *)
(* matched and returned.                                                   *)
(***************************************************************************)
C4_PreFilterFalseSkips ==
    \A k \in 1..Len(commands) :
        LET d == commands[k]
            m == FirstIndex(d.preFilters, LAMBDA f : f # "pass")
        IN  (theCall.entry = "findMatchingCommand" /\ m > 0 /\ d.preFilters[m] = "fail") =>
                /\ \A p \in 1..Len(theCall.trace) :
                      theCall.trace[p].cmd = d.id =>
                          theCall.trace[p].op = "preFilter" /\ theCall.trace[p].n <= m
                /\ theCall.lastErrorCmd = Null \/ theCall.lastErrorCmd.id # d.id
                /\ \A j \in (k + 1)..Len(commands) :
                      (FindDone /\ FirstSuccess(j)) =>
                          ("definition" \in DOMAIN theCall.ret /\ theCall.ret.definition = commands[j])

\* the first definition is skipped by its pre-filter and the second one,
\* with the same trigger, is returned
C4_Witness ==
    /\ FindDone
    /\ Len(commands) = 2
    /\ FiltersOutcome(commands[1].preFilters) = "fail"
    /\ commands[1].triggers = commands[2].triggers
    /\ Len(theCall.trace) > 0 /\ theCall.trace[1].cmd = commands[1].id
    /\ "definition" \in DOMAIN theCall.ret
    /\ theCall.ret.definition = commands[2]

(***************************************************************************)
(* C5: if a post-filter of a definition that bound fails, the search is    *)
(* not resumed and findMatchingCommand returns null.                       *)
(***************************************************************************)
C5_PostFilterFailureEndsSearch ==
    (FindDone /\ \E p \in 1..Len(theCall.trace) :
                    theCall.trace[p].op = "postFilter" /\ theCall.trace[p].callee = "fail") =>
        theCall.ret = Null

(***************************************************************************)
(* C6: a definition that binds and whose post-filter fails changes nothing *)
(* except the report of errors: findMatchingCommand returns what it        *)
(* returns without that definition, but null where that is a match error.  *)
(***************************************************************************)
\* the result r with a match error replaced by null
SuppressError(r) == IF "error" \in DOMAIN r THEN Null ELSE r

C7_PreFilterRejectionPropagates ==
    \A p \in 1..Len(theCall.trace) :
        (theCall.trace[p].op = "preFilter" /\ theCall.trace[p].callee = "throw") =>
            /\ p = Len(theCall.trace)
            /\ theCall.pc = "done"
            /\ theCall.ret = [thrown |-> "Error"]
            /\ theCall.lastErrorCmd = Null \/ theCall.lastErrorCmd.id # theCall.trace[p].cmd

\* C7 as claimed: after a rejecting pre-filter the search goes on
C7_RejectionHandledLikeFalse ==
    \A p \in 1..Len(theCall.trace) :
        (theCall.trace[p].op = "preFilter" /\ theCall.trace[p].callee = "throw") =>
            "thrown" \notin DOMAIN theCall.ret

\* the pre-filter of the first definition rejected and the second
\* definition was never visited
C7_Witness ==
    /\ FindDone
    /\ Len(commands) = 2
    /\ theCall.ci = 1
    /\ Len(theCall.trace) > 0
    /\ theCall.trace[Len(theCall.trace)].op = "preFilter"
    /\ theCall.ret = [thrown |-> "Error"]

(***************************************************************************)
(* C8: an error thrown by a pre-filter, a post-filter or a converter that  *)
(* is not a TypeConversionError ends the call: the promise rejects with    *)
(* it and no overload or definition is tried after it.                     *)
(***************************************************************************)
C8_ForeignErrorsPropagate ==
    \A p \in 1..Len(theCall.trace) :
        Threw(theCall.trace[p]) =>
            /\ p = Len(theCall.trace)
            /\ theCall.pc = "done"
            /\ theCall.ret = [thrown |-> "Error"]

\* a converter threw while an overload and a definition were still untried
C8_Witness ==
    /\ FindDone
    /\ Len(commands) = 2
    /\ theCall.ci = 1
    /\ theCall.si = 1
    /\ Len(commands[1].signatures) = 2
    /\ Len(theCall.trace) > 0
    /\ theCall.trace[Len(theCall.trace)].op = "convert"
    /\ theCall.ret = [thrown |-> "Error"]

(***************************************************************************)
(* The binder specification: one trigger, definitions without filters, and *)
(* inputs that take the binder through its branches.                       *)
(***************************************************************************)
\* <arg$>
CatchAllArg == [Parameter(arg, "string") EXCEPT !.catchAll = TRUE]

\* <bar:number> with the overload <baz:string>
NumberOrString == << <<Parameter(bar, "number")>>, <<Parameter(baz, "string")>> >>

\* <bar:number> with the overload <baz:number>
NumberOrNumber == << <<Parameter(bar, "number")>>, <<Parameter(baz, "number")>> >>

\* <arg$>
CatchAllOnly == << <<CatchAllArg>> >>

\* <arg1> -sw|s -opt|o:number
WithOptions ==
    << << Parameter(arg1, "string"),
          [switchOption(sw) EXCEPT !.shortcut = Str(<<"s">>)],
          [Option(opt, "number") EXCEPT !.shortcut = Str(<<"o">>)] >> >>

\* the signatures of the binder specification; the last is add(trigger, [])
BindSignatures == {NumberOrString, NumberOrNumber, CatchAllOnly, WithOptions, <<>>}

\* "!cmd"
InNone == <<"!", "c", "m", "d">>

\* "!cmd 10"
InTen == <<"!", "c", "m", "d", " ", "1", "0">>

\* "!cmd test"
InTest == <<"!", "c", "m", "d", " ", "t", "e", "s", "t">>

\* "!cmd a b"
InTwo == <<"!", "c", "m", "d", " ", "a", " ", "b">>

\* "!cmd -x"
InUnknown == <<"!", "c", "m", "d", " ", "-", "x">>

\* "!cmd -sw=1"
InSwitchValue == <<"!", "c", "m", "d", " ", "-", "s", "w", "=", "1">>

\* "!cmd a -opt"
InNoValue == <<"!", "c", "m", "d", " ", "a", " ", "-", "o", "p", "t">>

\* "!cmd a -o=zz"
InBadValue == <<"!", "c", "m", "d", " ", "a", " ", "-", "o", "=", "z", "z">>

\* "!cmd a -o 5 -s"
InOptions == <<"!", "c", "m", "d", " ", "a", " ", "-", "o", " ", "5", " ", "-", "s">>

\* "!cmd --unknown=val stuff"
InOptionFirst == <<"!", "c", "m", "d", " ", "-", "-", "u", "n", "k", "n", "o", "w", "n", "=", "v", "a", "l", " ", "s", "t", "u", "f", "f">>

\* "!cmd blah --unknown=val stuff"
InOptionInside == <<"!", "c", "m", "d", " ", "b", "l", "a", "h", " ", "-", "-", "u", "n", "k", "n", "o", "w", "n", "=", "v", "a", "l", " ", "s", "t", "u", "f", "f">>

BindInputs ==
    {InNone, InTen, InTest, InTwo, InUnknown, InSwitchValue,
     InNoValue, InBadValue, InOptions, InOptionFirst, InOptionInside}

NextBind ==
    \/ \E s \in BindSignatures : Len(commands) < MaxBindCommands /\ Add(<<Str(cmd)>>, s, NoConfig)
    \/ \E str \in BindInputs : FindBegin(1, str)
    \/ \E str \in BindInputs, k \in 1..MaxBindCommands : TryBegin(1, k, str)
    \/ Match(1)
    \/ Scan(1)
    \/ Fill(1)
    \/ ConvertValue(1)

SpecBind == Init /\ [][NextBind]_vars

(***************************************************************************)
(* C3: the overloads of a definition are tried in declaration order on one *)
(* token list; the values of the first overload that binds and converts    *)
(* are returned and no later overload is tried; if all fail, the error is  *)
(* that of the last overload.  With <bar:number> then <baz:string>,        *)
(* `cmd 10` selects the first and `cmd test` the second.                   *)
(***************************************************************************)
\* what definition d returns with overload j as its only signature
Overload(d, j, str) ==
    tryMatchingCommand([d EXCEPT !.signatures = <<SignaturesOf(d)[j]>>], optionPrefixes, str)

\* the overloads of d that bind and convert
Binding(d, str) == {j \in 1..Len(SignaturesOf(d)) : "values" \in DOMAIN Overload(d, j, str)}

\* the overloads of d that are tried: up to the first that binds
Tried(d, str) ==
    IF Binding(d, str) = {} THEN Len(SignaturesOf(d))
    ELSE CHOOSE j \in Binding(d, str) : \A k \in Binding(d, str) : j <= k

\* the events of the trace of call c that belong to definition d
EventsOf(c, d, op) == SelectSeq(c.trace, LAMBDA e : e.cmd = d.id /\ e.op = op)

C3_OverloadsInOrder ==
    theCall.pc = "done" =>
        /\ \A k \in 1..Len(commands) :
              LET d == commands[k]
                  tried == EventsOf(theCall, d, "signature")
              IN  Len(tried) > 0 =>
                    /\ Len(EventsOf(theCall, d, "tokenize")) = 1
                    /\ Len(tried) = Tried(d, theCall.str)
                    /\ \A j \in 1..Len(tried) : tried[j].n = j
        /\ "definition" \in DOMAIN theCall.ret =>
              theCall.ret.values =
                  Overload(theCall.ret.definition, Tried(theCall.ret.definition, theCall.str), theCall.str).values
        /\ "error" \in DOMAIN theCall.ret =>
              LET d == IF theCall.entry = "tryMatchingCommand" THEN theCall.command
                       ELSE theCall.ret.command
              IN  /\ Binding(d, theCall.str) = {}
                  /\ theCall.ret.error = Overload(d, Len(SignaturesOf(d)), theCall.str).error
        /\ (theCall.command # Null /\ theCall.command.signatures = NumberOrString) =>
              /\ theCall.str = InTen =>
                    theCall.ret.values = <<Bound(Parameter(bar, "number"), Num(10), FALSE)>>
              /\ theCall.str = InTest =>
                    theCall.ret.values = <<Bound(Parameter(baz, "string"), Str(<<"t", "e", "s", "t">>), FALSE)>>

\* `cmd test` on <bar:number>, <baz:string>: both overloads were tried and
\* the second bound
C3_Witness ==
    /\ theCall.pc = "done"
    /\ theCall.command # Null
    /\ theCall.command.signatures = NumberOrString
    /\ theCall.str = InTest
    /\ Len(EventsOf(theCall, theCall.command, "signature")) = 2
    /\ "values" \in DOMAIN theCall.ret
    /\ theCall.ret.values[1].name = baz

(***************************************************************************)
(* C9: an unknown option, a switch with an inline value, a valued option   *)
(* without a value, a positional token beyond the parameters, a missing    *)
(* required argument and a TypeConversionError each make the overload fail *)
(* with an error returned as a value: nothing is thrown and the overload   *)
(* does not succeed.                                                       *)
(***************************************************************************)
\* the signature the call is binding
theSignature == SignaturesOf(theCall.command)[theCall.si]

\* the token at the cursor of the token loop
theToken == theCall.parsedArguments[theCall.i + 1]

\* the option prefix of the token, <<>> if it has none
thePrefix == IF theToken.quoted THEN <<>> ELSE MatchingOptionPrefix(optionPrefixes, theToken.value)

\* the token read as an option, Null if it is none
theOption ==
    IF thePrefix = <<>> THEN Null ELSE optMatchRegex(StrSlice(theToken.value, Len(thePrefix)))

\* the options of the signature the token names
Declared ==
    SelectSeq(OptionsOf(theSignature),
              LAMBDA o : o.name = theOption.name \/ o.shortcut = Str(theOption.name))

\* the message of the failure the call is about to meet, "" if it meets none
Failure ==
    IF theCall.pc = "scan"
    THEN IF theOption # Null
         THEN IF Declared = <<>> THEN "Unknown option: "
              ELSE IF Declared[1].isSwitch
              THEN IF theOption.value # Undefined THEN "Switch options can't have values: " ELSE ""
              ELSE IF theOption.value = Undefined /\ theCall.i + 1 = Len(theCall.parsedArguments)
              THEN "No value for option: "
              ELSE ""
         ELSE IF theCall.paramIndex >= Len(ParametersOf(theSignature))
         THEN "Too many arguments, expected "
         ELSE ""
    ELSE IF theCall.pc = "fill"
    THEN IF \E k \in 1..Len(ParametersOf(theSignature)) :
                /\ ParametersOf(theSignature)[k].required
                /\ ~HasResult(theCall.result, ParametersOf(theSignature)[k].name)
         THEN "Missing required argument: "
         ELSE ""
    ELSE IF theCall.pc = "convert"
    THEN LET e == theCall.result[theCall.vi]
             raw == IF ~e.source.option /\ e.source.rest
                    THEN Elements(e.value)[theCall.ri] ELSE e.value
         IN  IF "tce" \in DOMAIN Convert(e.source.type, raw)
             THEN IF e.source.option THEN "Could not convert option "
                  ELSE "Could not convert argument "
             ELSE ""
    ELSE ""

C9_InputFailuresAreReturned ==
    [][Failure # "" =>
          LET c == calls[1]
              d == calls'[1]
          IN  /\ "error" \in DOMAIN d.signatureMatchResult
              /\ d.signatureMatchResult.error.what = Failure
              /\ "thrown" \notin DOMAIN d.ret
              /\ "definition" \notin DOMAIN d.ret
              /\ \/ d.pc # "done" /\ d.command = c.command /\ d.si = c.si + 1
                 \/ /\ c.si = Len(SignaturesOf(c.command))
                    /\ IF c.entry = "tryMatchingCommand"
                       THEN d.pc = "done" /\ d.ret = d.signatureMatchResult
                       ELSE d.lastError = d.signatureMatchResult.error /\ d.lastErrorCmd = c.command]_vars

\* tryMatchingCommand has returned the error of an option without a value
C9_Witness ==
    /\ theCall.pc = "done"
    /\ theCall.entry = "tryMatchingCommand"
    /\ theCall.str = InNoValue
    /\ "error" \in DOMAIN theCall.ret
    /\ theCall.ret.error = Msg("No value for option: ", <<"-">> \o opt)

(***************************************************************************)
(* C10: with the one signature <arg$> and the default option prefixes,     *)
(* `!cmd --unknown=val stuff` fails with the error of an unknown option,   *)
(* since its first token is read as an option before the catch-all         *)
(* parameter takes the tail; `!cmd blah --unknown=val stuff` binds arg to  *)
(* `blah --unknown=val stuff`.                                             *)
(***************************************************************************)
\* a call on a definition with the one signature <arg$> has settled
CatchAllDone ==
    /\ theCall.pc = "done"
    /\ theCall.command # Null
    /\ theCall.command.signatures = CatchAllOnly

C10_OptionBeforeCatchAll ==
    CatchAllDone =>
        /\ theCall.str = InOptionFirst =>
              /\ "error" \in DOMAIN theCall.ret
              /\ theCall.ret.error = Msg("Unknown option: ", <<"-", "-">> \o SubSeq(InOptionFirst, 8, 14))
        /\ theCall.str = InOptionInside =>
              /\ "values" \in DOMAIN theCall.ret
              /\ theCall.ret.values = <<Bound(CatchAllArg, Str(StrSlice(InOptionInside, 5)), FALSE)>>

\* C10 as claimed: `!cmd --unknown=val stuff` binds arg to `--unknown=val stuff`
C10_OptionTakenLiterally ==
    (CatchAllDone /\ theCall.str = InOptionFirst) =>
        /\ "values" \in DOMAIN theCall.ret
        /\ theCall.ret.values = <<Bound(CatchAllArg, Str(StrSlice(InOptionFirst, 5)), FALSE)>>

\* `!cmd --unknown=val stuff` has been answered with an error
C10_Witness ==
    /\ CatchAllDone
    /\ theCall.str = InOptionFirst
    /\ "error" \in DOMAIN theCall.ret

(***************************************************************************)
(* The values specification: rest and catch-all parameters, defaults,      *)
(* options that take the next token, and the order of the conversions.     *)
(***************************************************************************)
o2 == <<"o", "2">>
o3 == <<"o", "3">>

\* <arg2$>
CatchAllArg2 == [Parameter(arg2, "string") EXCEPT !.catchAll = TRUE]

\* <arg2...>
RestArg2 == [Parameter(arg2, "string") EXCEPT !.rest = TRUE]

\* <arg...:number>
RestNumbers == [Parameter(arg, "number") EXCEPT !.rest = TRUE]

\* [arg2:number=10]
OptionalWithDefault ==
    [Parameter(arg2, "number") EXCEPT !.required = FALSE, !.def = Str(<<"1", "0">>)]

\* [arg2]
OptionalArg2 == [Parameter(arg2, "string") EXCEPT !.required = FALSE]

\* <arg1=10>, as parseSignature gives it: required, with a default
RequiredWithDefault == [Parameter(arg1, "string") EXCEPT !.def = Str(<<"1", "0">>)]

\* -sw=1, as parseSignature gives it: a switch with a default
SwitchWithDefault == [switchOption(sw) EXCEPT !.def = Str(<<"1">>)]

\* -opt:number=5
OptionWithDefault == [Option(opt, "number") EXCEPT !.def = Str(<<"5">>)]

\* -o3:string with the default ""
OptionWithEmptyDefault == [Option(o3, "string") EXCEPT !.def = Str(<<>>)]

\* the signatures of the values specification
ArgSignatures ==
    { << <<Parameter(arg1, "string"), CatchAllArg2>> >>,
      << <<Parameter(arg1, "string"), RestArg2>> >>,
      << <<RestNumbers>> >>,
      << <<Parameter(arg1, "string"), OptionalWithDefault>> >>,
      << <<Parameter(arg1, "string"), OptionalArg2>> >>,
      << <<RequiredWithDefault>> >>,
      << <<Parameter(arg1, "string"), SwitchWithDefault, OptionWithDefault,
           Option(o2, "string"), OptionWithEmptyDefault>> >> }

\* !cmd
ArgNone == <<"!", "c", "m", "d">>

\* !cmd a
ArgOne == <<"!", "c", "m", "d", " ", "a">>

\* !cmd a b  'c d' -x
ArgSpaced == <<"!", "c", "m", "d", " ", "a", " ", "b", " ", " ", "'", "c", " ", "d", "'", " ", "-", "x">>

\* !cmd U+1F600 b c
ArgAstral == <<"!", "c", "m", "d", " ", Astral, " ", "b", " ", "c">>

\* !cmd x 5
ArgBadFirst == <<"!", "c", "m", "d", " ", "x", " ", "5">>

\* !cmd 5 7
ArgNumbers == <<"!", "c", "m", "d", " ", "5", " ", "7">>

\* !cmd "-opt"
ArgQuotedOption == <<"!", "c", "m", "d", " ", "\"", "-", "o", "p", "t", "\"">>

\* !cmd a -o2 -sw
ArgOptionAsValue == <<"!", "c", "m", "d", " ", "a", " ", "-", "o", "2", " ", "-", "s", "w">>

\* !cmd a -o2 'x y'
ArgQuotedValue == <<"!", "c", "m", "d", " ", "a", " ", "-", "o", "2", " ", "'", "x", " ", "y", "'">>

\* !cmd a -o2
ArgNoValue == <<"!", "c", "m", "d", " ", "a", " ", "-", "o", "2">>

\* !cmd a -opt=7 -sw
ArgGiven == <<"!", "c", "m", "d", " ", "a", " ", "-", "o", "p", "t", "=", "7", " ", "-", "s", "w">>

ArgInputs ==
    {ArgNone, ArgOne, ArgSpaced, ArgAstral, ArgBadFirst, ArgNumbers,
     ArgQuotedOption, ArgOptionAsValue, ArgQuotedValue, ArgNoValue, ArgGiven}

NextArgs ==
    \/ \E g \in ArgSignatures : Len(commands) < MaxArgCommands /\ Add(<<Str(cmd)>>, g, NoConfig)
    \/ \E str \in ArgInputs : FindBegin(1, str)
    \/ \E str \in ArgInputs, k \in 1..MaxArgCommands : TryBegin(1, k, str)
    \/ Match(1)
    \/ Scan(1)
    \/ Fill(1)
    \/ ConvertValue(1)

SpecArgs == Init /\ [][NextArgs]_vars

(***************************************************************************)
(* The token at the cursor of the token loop, for the values               *)
(* specification.                                                          *)
(***************************************************************************)
\* the positional parameters of the signature the call is binding
theParameters == ParametersOf(theSignature)

\* the token at the cursor is not read as an option and goes to parameter p
Positional(p) ==
    /\ theCall.pc = "scan"
    /\ theOption = Null
    /\ theCall.paramIndex < Len(theParameters)
    /\ theParameters[theCall.paramIndex + 1] = p

\* the entry of the result of call c for name, Null if it has none
EntryOf(result, name) ==
    IF HasResult(result, name)
    THEN result[CHOOSE k \in 1..Len(result) : result[k].name = name]
    ELSE Null

\* the texts of the tokens of call c from the 0-based position i on
TextsFrom(c, i) == [k \in 1..(Len(c.parsedArguments) - i) |-> Str(c.parsedArguments[i + k].value)]

\* the events of the last call of tryMatchingArgumentsToSignature in call c
LastAttempt(c) ==
    LET at == CHOOSE k \in 0..Len(c.trace) :
                  /\ k > 0 => c.trace[k].op = "signature"
                  /\ \A j \in (k + 1)..Len(c.trace) : c.trace[j].op # "signature"
    IN  SubSeq(c.trace, at + 1, Len(c.trace))

\* the converter calls of the last attempt of call c for result entry v
ConversionsOf(c, v) == SelectSeq(LastAttempt(c), LAMBDA e : e.op = "convert" /\ e.n = v)

(***************************************************************************)
(* C11: a token bound to a catch-all parameter gives it the suffix of the  *)
(* input after the trigger that starts at the first character of the       *)
(* token, spacing, quotes and option-like text kept, without leading       *)
(* whitespace, whatever code points precede the token; the scan ends.      *)
(***************************************************************************)
C11_CatchAllTakesSuffix ==
    [][\A p \in {CatchAllArg, CatchAllArg2} :
          Positional(p) =>
              LET suffix == SubSeq(theCall.rest, theToken.index + 1, Len(theCall.rest))
              IN  /\ calls'[1].pc = "fill"
                  /\ EntryOf(calls'[1].result, p.name) = Bound(p, Str(suffix), FALSE)
                  /\ suffix # <<>> /\ ~IsWhitespace(suffix[1])]_vars

(***************************************************************************)
(* C12: a token bound to a rest parameter gives it the array of the texts  *)
(* of that token and of every later token, in order, quoted and            *)
(* option-like tokens included; the scan ends, and each element is         *)
(* converted on its own, the order kept.                                   *)
(***************************************************************************)
C12_RestTakesRemainingTokens ==
    /\ [][\A p \in {RestArg2, RestNumbers} :
             Positional(p) =>
                 /\ calls'[1].pc = "fill"
                 /\ EntryOf(calls'[1].result, p.name) = Bound(p, Arr(TextsFrom(theCall, theCall.i)), FALSE)]_vars
    /\ [](("values" \in DOMAIN theCall.ret) =>
             \A v \in 1..Len(theCall.ret.values) :
                 LET e == theCall.ret.values[v]
                     made == ConversionsOf(theCall, v)
                 IN  (~e.source.option /\ e.source.rest) =>
                         /\ \E i \in 0..Len(theCall.parsedArguments) :
                               [k \in 1..Len(made) |-> made[k].arg] = TextsFrom(theCall, i)
                         /\ e.value = Arr([k \in 1..Len(made) |-> Convert(e.source.type, made[k].arg).ok]))

\* <arg1> <arg2...> on `a b  'c d' -x`: the rest holds b, c d and -x
C12_Witness ==
    /\ theCall.pc = "done"
    /\ theCall.str = ArgSpaced
    /\ "values" \in DOMAIN theCall.ret
    /\ EntryOf(theCall.ret.values, arg2) # Null
    /\ EntryOf(theCall.ret.values, arg2).value =
          Arr(<<Str(<<"b">>), Str(<<"c", " ", "d">>), Str(<<"-", "x">>)>>)

(***************************************************************************)
(* C13: a token the tokenizer marked as quoted is never read as an option. *)
(* When the scan comes to it, it goes to the next positional parameter, or *)
(* to the rest or catch-all parameter, or is one argument too many; a      *)
(* quoted token that follows a valued option given without a value is      *)
(* taken as the value of that option.                                      *)
(***************************************************************************)
\* the positional entries of a result
PositionalEntries(result) == SelectSeq(result, LAMBDA e : ~e.source.option)

\* the entries of a result that are options
OptionEntries(result) == SelectSeq(result, LAMBDA e : e.source.option)

C13_QuotedTokensAreValues ==
    [][(theCall.pc = "scan" /\ theToken.quoted) =>
          LET c == calls[1]
              d == calls'[1]
          IN  IF c.paramIndex >= Len(theParameters)
              THEN /\ "error" \in DOMAIN d.signatureMatchResult
                   /\ d.signatureMatchResult.error.what = "Too many arguments, expected "
              ELSE LET p == theParameters[c.paramIndex + 1]
                       e == EntryOf(d.result, p.name)
                   IN  /\ OptionEntries(d.result) = OptionEntries(c.result)
                       /\ e # Null
                       /\ IF p.rest THEN e.value.a[1] = Str(theToken.value)
                          ELSE IF p.catchAll
                          THEN e.value = Str(SubSeq(c.rest, theToken.index + 1, Len(c.rest)))
                          ELSE e.value = Str(theToken.value) /\ d.paramIndex = c.paramIndex + 1]_vars

\* C13 as claimed: the text of every quoted token is in a positional value
C13_QuotedAlwaysPositional ==
    (theCall.pc = "done" /\ "values" \in DOMAIN theCall.ret) =>
        \A k \in 1..Len(theCall.parsedArguments) :
            theCall.parsedArguments[k].quoted =>
                \E v \in 1..Len(theCall.ret.values) :
                    LET e == theCall.ret.values[v]
                    IN  /\ ~e.source.option
                        /\ \/ e.value = Str(theCall.parsedArguments[k].value)
                           \/ e.source.rest /\ \E j \in 1..Len(e.value.a) :
                                 e.value.a[j] = Str(theCall.parsedArguments[k].value)
                           \/ e.source.catchAll

\* `"-opt"` in quotes is the value of arg1 though -opt is declared
C13_Witness ==
    /\ theCall.pc = "done"
    /\ theCall.str = ArgQuotedOption
    /\ "values" \in DOMAIN theCall.ret
    /\ EntryOf(theCall.ret.values, arg1) # Null
    /\ EntryOf(theCall.ret.values, arg1).value = Str(<<"-">> \o opt)
    /\ EntryOf(theCall.ret.values, opt) # Null
    /\ EntryOf(theCall.ret.values, opt).usesDefaultValue

(***************************************************************************)
(* C14: a valued option given without `=value` takes the text of the next  *)
(* token for its raw value, quoted or option-like as it may be, and that   *)
(* token is bound to nothing else; with no next token the overload fails   *)
(* with the error of a missing value.                                      *)
(***************************************************************************)
C14_OptionTakesNextToken ==
    [][(/\ theCall.pc = "scan"
        /\ theOption # Null
        /\ Declared # <<>>
        /\ ~Declared[1].isSwitch
        /\ theOption.value = Undefined) =>
          LET c == calls[1]
              d == calls'[1]
          IN  IF c.i + 1 >= Len(c.parsedArguments)
              THEN /\ "error" \in DOMAIN d.signatureMatchResult
                   /\ d.signatureMatchResult.error =
                          Msg("No value for option: ", thePrefix \o Declared[1].name)
              ELSE /\ d.result = SetResult(c.result, Bound(Declared[1], Str(c.parsedArguments[c.i + 2].value), FALSE))
                   /\ d.paramIndex = c.paramIndex
                   /\ IF c.i + 2 >= Len(c.parsedArguments) THEN d.pc = "fill"
                      ELSE d.pc = "scan" /\ d.i = c.i + 2]_vars

\* `-o2 -sw`: o2 has the value "-sw" and the switch sw is not set
C14_Witness ==
    /\ theCall.pc = "done"
    /\ theCall.str = ArgOptionAsValue
    /\ "values" \in DOMAIN theCall.ret
    /\ EntryOf(theCall.ret.values, o2) # Null
    /\ EntryOf(theCall.ret.values, o2).value = Str(<<"-">> \o sw)
    /\ EntryOf(theCall.ret.values, sw) = Null

(***************************************************************************)
(* The result of the two loops that follow the token loop.                 *)
(***************************************************************************)
\* the step from "fill" ended call d's overload in an error
FillFailed(d) == d.pc # "convert" /\ "values" \notin DOMAIN d.signatureMatchResult

\* the values the step from "fill" left in call d
Filled(d) == IF d.pc = "convert" THEN d.result ELSE d.signatureMatchResult.values

\* the entries of signature that have no entry in result
Unbound(entries, result) == SelectSeq(entries, LAMBDA p : ~HasResult(result, p.name))

(***************************************************************************)
(* C15: after the token loop, a positional parameter that got no token is  *)
(* bound to its default and flagged if it has one; else the overload fails *)
(* with a missing-argument error if it is required; else it is left out.   *)
(***************************************************************************)
C15_UnboundParameters ==
    [][theCall.pc = "fill" =>
          LET unbound == Unbound(theParameters, theCall.result)
              d == calls'[1]
          IN  IF \E k \in 1..Len(unbound) : unbound[k].def = Null /\ unbound[k].required
              THEN /\ "error" \in DOMAIN d.signatureMatchResult
                   /\ d.signatureMatchResult.error.what = "Missing required argument: "
              ELSE /\ ~FillFailed(d)
                   /\ \A k \in 1..Len(unbound) :
                         EntryOf(Filled(d), unbound[k].name) =
                             IF unbound[k].def # Null THEN Bound(unbound[k], unbound[k].def, TRUE)
                             ELSE Null]_vars

(***************************************************************************)
(* C16: after the token loop, a declared option that was not given is      *)
(* bound to its default and flagged if it has one, switch or not and       *)
(* whatever the default is; without a default it is absent, and is no      *)
(* error.                                                                  *)
(***************************************************************************)
C16_UnboundOptions ==
    [][(theCall.pc = "fill" /\ ~FillFailed(calls'[1])) =>
          LET unbound == Unbound(OptionsOf(theSignature), theCall.result)
          IN  \A k \in 1..Len(unbound) :
                  EntryOf(Filled(calls'[1]), unbound[k].name) =
                      IF unbound[k].def # Null THEN Bound(unbound[k], unbound[k].def, TRUE)
                      ELSE Null]_vars

(***************************************************************************)
(* C17: the converter of a parameter or valued option is called on a value *)
(* filled in from the declared default as it is on a value from the input: *)
(* the default is passed to the converter and what it returns is the       *)
(* value.                                                                  *)
(***************************************************************************)
\* the entries of the values of a settled match that were filled from a
\* default and are no switches
DefaultedEntries ==
    IF theCall.pc = "done" /\ "values" \in DOMAIN theCall.ret
    THEN {v \in 1..Len(theCall.ret.values) :
             /\ theCall.ret.values[v].usesDefaultValue
             /\ ~theCall.ret.values[v].source.isSwitch
             /\ ~theCall.ret.values[v].source.rest}
    ELSE {}

Conversions(trace) == SelectSeq(trace, LAMBDA e : e.op = "convert")

C18_ConversionsInOrder ==
    /\ [][Len(Conversions(calls'[1].trace)) <= Len(Conversions(calls[1].trace)) + 1]_vars
    /\ [](/\ \A p \in 1..(Len(theCall.trace) - 1) :
                (theCall.trace[p].op = "convert" /\ theCall.trace[p + 1].op = "convert") =>
                    /\ "ok" \in DOMAIN Convert(theCall.trace[p].callee, theCall.trace[p].arg)
                    /\ theCall.trace[p].n <= theCall.trace[p + 1].n
          /\ (theCall.pc = "done" /\ "values" \in DOMAIN theCall.ret) =>
                \A v \in 1..Len(theCall.ret.values) :
                    LET e == theCall.ret.values[v]
                    IN  Len(ConversionsOf(theCall, v)) =
                            IF e.source.isSwitch THEN 0
                            ELSE IF e.source.rest THEN Len(e.value.a)
                            ELSE 1
          /\ (theCall.pc = "done" /\ theCall.command # Null
                /\ theCall.command.signatures = << <<RestNumbers>> >> /\ theCall.str = ArgBadFirst) =>
                LET made == Conversions(LastAttempt(theCall))
                IN  [k \in 1..Len(made) |-> made[k].arg] = <<Str(<<"x">>)>>)

\* <arg...:number> on `x 5`: one converter call, on x, and an error
C18_Witness ==
    /\ theCall.pc = "done"
    /\ theCall.command # Null
    /\ theCall.command.signatures = << <<RestNumbers>> >>
    /\ theCall.str = ArgBadFirst
    /\ Len(Conversions(theCall.trace)) = 1
    /\ "error" \in DOMAIN theCall.ret

(***************************************************************************)
(* The trigger specification: string and regular-expression prefixes and   *)
(* triggers.                                                               *)
(***************************************************************************)
suspend == <<"s", "u", "s", "p", "e", "n", "d">>

\* the triggers "s", "suspend" and /foo|bar|baz/
TrigTriggers == {Str(<<"s">>), Str(suspend), RegExp(<<foo, bar, baz>>)}

\* the default prefix "!", and the prefix /!|\?/
TrigConfigs == {NoConfig, [NoConfig EXCEPT !.prefix = RegExp(<< <<"!">>, <<"?">> >>)]}

\* [arg]
OptionalArg == [Parameter(arg, "string") EXCEPT !.required = FALSE]

\* !suspend
TrigSuspend == <<"!", "s", "u", "s", "p", "e", "n", "d">>

\* !s foo
TrigS == <<"!", "s", " ", "f", "o", "o">>

\* !suspendo
TrigSuspendo == <<"!", "s", "u", "s", "p", "e", "n", "d", "o">>

\* !foo
TrigFoo == <<"!", "f", "o", "o">>

\* !bar
TrigBar == <<"!", "b", "a", "r">>

\* !foobar
TrigFooBar == <<"!", "f", "o", "o", "b", "a", "r">>

\* !xbar
TrigXBar == <<"!", "x", "b", "a", "r">>

\* !bazx
TrigBazX == <<"!", "b", "a", "z", "x">>

\* a!s
TrigLate == <<"a", "!", "s">>

\* xs ?
TrigPrefixInside == <<"x", "s", " ", "?">>

\* ?s
TrigQuestion == <<"?", "s">>

TrigInputs ==
    {TrigSuspend, TrigS, TrigSuspendo, TrigFoo, TrigBar, TrigFooBar,
     TrigXBar, TrigBazX, TrigLate, TrigPrefixInside, TrigQuestion}

NextTrig ==
    \/ \E t \in TrigTriggers, f \in TrigConfigs :
          Len(commands) < MaxTrigCommands /\ Add(<<t>>, << <<OptionalArg>> >>, f)
    \/ \E str \in TrigInputs : FindBegin(1, str)
    \/ \E str \in TrigInputs, k \in 1..MaxTrigCommands : TryBegin(1, k, str)
    \/ Match(1)
    \/ Scan(1)
    \/ Fill(1)
    \/ ConvertValue(1)

SpecTrig == Init /\ [][NextTrig]_vars

(***************************************************************************)
(* C19: for string and regular-expression prefixes and triggers alike, a   *)
(* definition reaches the tokenizer only if its prefix matches at the      *)
(* start of the input, one of its triggers matches where the prefix ended, *)
(* and whitespace or the end of the input follows the trigger; with the    *)
(* commands `s` and `suspend`, `!suspend` matches `suspend` and `!s foo`   *)
(* matches `s`.                                                            *)
(***************************************************************************)
\* the texts a compiled prefix or trigger is meant to match
TextsOf(re) ==
    IF re = Null THEN {<<>>}
    ELSE IF "source" \in DOMAIN re THEN {re.source}
    ELSE {re.alts[k] : k \in 1..Len(re.alts)}

\* str starts with a prefix of d, then a trigger of d, then whitespace or
\* nothing
Anchored(d, str) ==
    \E pre \in TextsOf(d.prefix) :
        /\ StartsWith(str, pre)
        /\ \E k \in 1..Len(d.triggers) : \E text \in TextsOf(d.triggers[k]) :
              LET left == SubSeq(str, Len(pre) + 1, Len(str))
              IN  /\ StartsWith(left, text)
                  /\ Len(left) = Len(text) \/ IsWhitespace(left[Len(text) + 1])

C19_TriggersAnchored ==
    /\ \A p \in 1..Len(theCall.trace) :
          theCall.trace[p].op = "tokenize" => Anchored(commands[theCall.trace[p].cmd], theCall.str)
    /\ (/\ FindDone
        /\ Len(commands) = 2
        /\ commands[1].triggers = <<RegExpOf(<<"s">>)>>
        /\ commands[2].triggers = <<RegExpOf(suspend)>>
        /\ commands[1].prefix = defaultPrefix
        /\ commands[2].prefix = defaultPrefix) =>
          /\ theCall.str = TrigSuspend =>
                "definition" \in DOMAIN theCall.ret /\ theCall.ret.definition = commands[2]
          /\ theCall.str = TrigS =>
                "definition" \in DOMAIN theCall.ret /\ theCall.ret.definition = commands[1]

(***************************************************************************)
(* The registration specification: add() with well-ordered and ill-ordered *)
(* signatures.                                                             *)
(***************************************************************************)
\* <arg1>, <arg1...>, <arg1$>, [arg1]
FirstParameters ==
    { Parameter(arg1, "string"),
      [Parameter(arg1, "string") EXCEPT !.rest = TRUE],
      [Parameter(arg1, "string") EXCEPT !.catchAll = TRUE],
      [Parameter(arg1, "string") EXCEPT !.required = FALSE] }

\* <arg2>, <arg2...>, <arg2$>, [arg2]
SecondParameters == {Parameter(arg2, "string"), RestArg2, CatchAllArg2, OptionalArg2}

\* one parameter, two parameters, and two parameters with -sw between them
AddSignatures ==
    {<<p>> : p \in FirstParameters}
        \cup {<<p, q>> : p \in FirstParameters, q \in SecondParameters}
        \cup {<<p, switchOption(sw), q>> : p \in FirstParameters, q \in SecondParameters}

\* a signature alone, and as the first or the second overload beside <arg1>
AddOverloads ==
    {<<g>> : g \in AddSignatures}
        \cup {<<g, <<Parameter(arg1, "string")>> >> : g \in AddSignatures}
        \cup {<< <<Parameter(arg1, "string")>>, g>> : g \in AddSignatures}

NextAdd ==
    \E g \in AddOverloads : Len(commands) < MaxAddCommands /\ Add(<<Str(cmd)>>, g, NoConfig)

SpecAdd == Init /\ [][NextAdd]_vars

\* a positional parameter of the signature comes after a rest, a catch-all or
\* an optional positional parameter
Misordered(signature) ==
    \E i \in 1..Len(signature) : \E j \in (i + 1)..Len(signature) :
        /\ ~signature[i].option
        /\ ~signature[j].option
        /\ signature[i].rest \/ signature[i].catchAll \/ ~signature[i].required

(***************************************************************************)
(* C20: add() throws whenever any one of the supplied signatures, not only *)
(* the first, declares a positional parameter after a rest parameter, a    *)
(* catch-all parameter or an optional parameter; it throws for no other    *)
(* parameter order, and a call that throws registers nothing.              *)
(***************************************************************************)
C20_AddRejectsMisorderedSignatures ==
    /\ [](lastAdd # Null =>
            (lastAdd.threw <=> \E k \in 1..Len(lastAdd.signatures) : Misordered(lastAdd.signatures[k])))
    /\ [][lastAdd'.threw => UNCHANGED <<commands, commandId>>]_vars

\* add() threw because of its second signature, the required parameter coming
\* after the optional one past an option
C20_Witness ==
    /\ lastAdd # Null
    /\ lastAdd.threw
    /\ Len(lastAdd.signatures) = 2
    /\ ~Misordered(lastAdd.signatures[1])
    /\ lastAdd.signatures[2] = <<[Parameter(arg1, "string") EXCEPT !.required = FALSE],
                                 switchOption(sw), Parameter(arg2, "string")>>
    /\ commands = <<>>

(***************************************************************************)
(* The registry specification: add(), remove() and getAll() in any order.  *)
(***************************************************************************)
\* no parameters, and [arg1] <arg2>, which add() refuses
RegSignatures ==
    { << <<>> >>,
      << <<[Parameter(arg1, "string") EXCEPT !.required = FALSE], Parameter(arg2, "string")>> >> }

NextReg ==
    \/ \E g \in RegSignatures : commandId < MaxIds /\ Add(<<Str(foo)>>, g, NoConfig)
    \/ \E n \in 0..MaxIds : Remove(Num(n))
    \/ \E k \in 1..MaxIds : snapshot # Null /\ k <= Len(snapshot.items) /\ Remove(snapshot.items[k])
    \/ GetAll
    \/ PopSnapshot

SpecReg == Init /\ [][NextReg]_vars

\* the ids of a list of definitions
IdsOf(list) == [k \in 1..Len(list) |-> list[k].id]

(***************************************************************************)
(* C21: ids are handed out 1, 2, 3, ... in the order of the add() calls    *)
(* that succeed; the registered definitions have distinct ids, in strictly *)
(* increasing order along the registry, and an id that was handed out is   *)
(* never handed out again, whatever was removed.                           *)
(***************************************************************************)
C21_IdsIncrease ==
    /\ [](\A k \in 1..Len(commands) :
            /\ commands[k].id \in 1..commandId
            /\ k > 1 => commands[k - 1].id < commands[k].id)
    /\ [][/\ commandId' >= commandId
          /\ commandId' # commandId =>
                /\ commandId' = commandId + 1
                /\ commands' = Append(commands, commands'[Len(commands')])
                /\ commands'[Len(commands')].id = commandId'
          /\ \A k \in 1..Len(commands') :
                (\A j \in 1..Len(commands) : commands[j] # commands'[k]) =>
                    commands'[k].id = commandId + 1
          /\ (lastAdd' # lastAdd /\ lastAdd'.threw) => commandId' = commandId]_vars

\* an add() was refused after the first id, the ids 2 and 3 were handed out
\* later, and the definition 2 was removed
C21_Witness ==
    /\ commandId = 3
    /\ IdsOf(commands) = <<1, 3>>
    /\ lastRemove = Num(2)
    /\ snapshot # Null
    /\ IdsOf(snapshot.items) = <<1>>
    /\ ~lastAdd.threw

(***************************************************************************)
(* C22: getAll() returns the registered definitions in registration order, *)
(* in an array of its own: no add() or remove() changes an array the host  *)
(* got from getAll(), and a change the host makes to that array leaves the *)
(* registry as it is.                                                      *)
(***************************************************************************)
C22_GetAllIsASnapshot ==
    [][/\ commands' # commands => snapshot' = snapshot
       /\ (snapshot' # snapshot /\ snapshot'.fresh) => snapshot'.items = commands]_vars

\* the test: two definitions in the array, the first removed from the
\* registry afterwards
C22_Witness ==
    /\ snapshot # Null
    /\ snapshot.fresh
    /\ IdsOf(snapshot.items) = <<1, 2>>
    /\ IdsOf(commands) = <<2>>

\* the host emptied its array and the registry still has both definitions
C22_WitnessPop ==
    /\ snapshot # Null
    /\ snapshot.items = <<>>
    /\ IdsOf(commands) = <<1, 2>>

(***************************************************************************)
(* C23: remove(x) takes out the one registered definition that is x or has *)
(* the id x, and leaves the others in their order; when no registered      *)
(* definition is x or has the id x, the registry stays as it is.           *)
(***************************************************************************)
\* the places of the registry that hold x or a definition with the id x
Hits(x) ==
    {k \in 1..Len(commands) : commands[k] = x \/ ("t" \in DOMAIN x /\ commands[k].id = x.n)}

C23_RemoveTakesOne ==
    [][(lastRemove' # lastRemove \/ Len(commands') < Len(commands)) =>
          IF Hits(lastRemove') = {} THEN commands' = commands
          ELSE /\ Cardinality(Hits(lastRemove')) = 1
               /\ \A k \in Hits(lastRemove') : commands' = RemoveAt(commands, k)]_vars

\* a definition that is no longer registered was given to remove(), with
\* definitions left in the registry
C23_Witness ==
    /\ lastRemove # Null
    /\ "id" \in DOMAIN lastRemove
    /\ commandId = 3
    /\ IdsOf(commands) = <<1, 3>>
    /\ lastRemove.id = 2

(***************************************************************************)
(* The tokenizer specification: parseArguments on every short string over  *)
(* its special characters and on the strings of the tests, and one search  *)
(* for an option whose value is quoted.                                    *)
(***************************************************************************)
\* an ordinary character, white space, the two quotes and the backslash
TokChars == {"a", " ", "\"", "'", "\\"}

\* "a b" in double quotes
TokQuotedPair == <<"\"", "a", " ", "b", "\"">>
\* -opt="v" bar
TokOptionWithQuotes == <<"-", "o", "p", "t", "=", "\"", "v", "\"", " ", "b", "a", "r">>
\* ` test`
TokLeadingSpace == <<" ", "t", "e", "s", "t">>
\* foo 'bar \' baz' quux
TokEscaping ==
    <<"f", "o", "o", " ", "'", "b", "a", "r", " ", "\\", "'", " ", "b", "a", "z", "'", " ",
      "q", "u", "u", "x">>
\* an astral code point, then `  a`
TokAstral == <<Astral, " ", " ", "a">>

\* a"b"c
TokQuotesInside == <<"a", "\"", "b", "\"", "c">>

TokInputs ==
    UNION {[1..n -> TokChars] : n \in 0..MaxTokLen}
        \cup {TokQuotedPair, TokOptionWithQuotes, TokLeadingSpace, TokEscaping, TokAstral,
              TokQuotesInside}

\* <arg$> and -opt:string
TokSignature == <<CatchAllArg, Option(opt, "string")>>

\* !cmd -opt="v" bar
TokSearch == <<"!">> \o cmd \o <<" ">> \o TokOptionWithQuotes

NextTok ==
    \/ \E str \in TokInputs : ParseArguments(str)
    \/ Retokenize
    \/ commands = <<>> /\ Add(<<Str(cmd)>>, <<TokSignature>>, NoConfig)
    \/ FindBegin(1, TokSearch)
    \/ Match(1)
    \/ Scan(1)
    \/ Fill(1)
    \/ ConvertValue(1)

SpecTok == Init /\ [][NextTok]_vars

\* parseArguments was called
Tokenized == lastParse # Null /\ lastParse.fn = "parseArguments"

(***************************************************************************)
(* C24: a token is marked quoted only if it starts with its opening quote: *)
(* `"a b"` gives the one token `a b`, quoted; a token in which a quote     *)
(* opens after other characters, as -opt="v", is one token, not quoted,    *)
(* and the binder still reads it as an option.                             *)
(***************************************************************************)
C24_QuotedOnlyFromTheStart ==
    /\ Tokenized =>
          /\ \A k \in 1..Len(lastParse.args) :
                lastParse.args[k].quoted =>
                    /\ lastParse.str[lastParse.args[k].index + 1] \in quoteChars
                    /\ \E e \in (lastParse.args[k].index + 2)..Len(lastParse.str) :
                          lastParse.str[e] = lastParse.str[lastParse.args[k].index + 1]
          /\ lastParse.str = TokQuotedPair =>
                lastParse.args = <<[index |-> 0, value |-> <<"a", " ", "b">>, quoted |-> TRUE]>>
          /\ lastParse.str = TokOptionWithQuotes =>
                /\ Len(lastParse.args) = 2
                /\ lastParse.args[1] = [index |-> 0, value |-> <<"-", "o", "p", "t", "=", "v">>, quoted |-> FALSE]
    /\ (FindDone /\ theCall.str = TokSearch /\ commands # <<>>) =>
          /\ "values" \in DOMAIN theCall.ret
          /\ EntryOf(theCall.ret.values, opt) # Null
          /\ EntryOf(theCall.ret.values, opt).value = Str(<<"v">>)
          /\ EntryOf(theCall.ret.values, arg).value = Str(bar)

\* the search for -opt="v" bar is over, and the tokenizer was given a string
\* in which a quote opens and closes after another character
C24_Witness ==
    /\ FindDone
    /\ theCall.str = TokSearch
    /\ commands # <<>>
    /\ Tokenized
    /\ lastParse.str = <<"a", "\"", "\"">>
    /\ Len(lastParse.args) = 1

(***************************************************************************)
(* C25: the offset of a token is the code-point index of its first source  *)
(* character, its opening quote or backslash when it starts with one, and  *)
(* never that of white space before it; the offsets increase strictly      *)
(* along the tokens, and a first token that starts right after k leading   *)
(* white-space characters has the offset k.                                *)
(***************************************************************************)
\* the number of white-space characters str starts with
RECURSIVE LeadingWhitespace(_)
LeadingWhitespace(str) ==
    IF str # <<>> /\ IsWhitespace(str[1]) THEN 1 + LeadingWhitespace(Tail(str)) ELSE 0

C25_OffsetsAreTokenStarts ==
    Tokenized =>
        /\ \A k \in 1..Len(lastParse.args) :
              LET at == lastParse.args[k].index + 1
              IN  /\ at \in 1..Len(lastParse.str)
                  /\ ~IsWhitespace(lastParse.str[at])
                  /\ lastParse.str[at] \in quoteChars \cup {"\\"}
                        \/ lastParse.str[at] = lastParse.args[k].value[1]
                  /\ k > 1 => lastParse.args[k - 1].index < lastParse.args[k].index
        /\ LET k == LeadingWhitespace(lastParse.str)
               emptyQuotes == /\ k + 2 <= Len(lastParse.str)
                              /\ lastParse.str[k + 1] \in quoteChars
                              /\ lastParse.str[k + 2] = lastParse.str[k + 1]
           IN  (lastParse.args # <<>> /\ ~emptyQuotes) => lastParse.args[1].index = k

\* two white-space characters, then a token
C25_Witness ==
    /\ Tokenized
    /\ lastParse.str = <<" ", " ", "a">>
    /\ lastParse.args = <<[index |-> 2, value |-> <<"a">>, quoted |-> FALSE]>>

(***************************************************************************)
(* C26: an unescaped backslash is dropped and the character after it goes  *)
(* into the current token as it is, as any ordinary character would: an    *)
(* escaped quote opens and closes nothing, escaped white space ends no     *)
(* token, an escaped backslash gives one backslash, and the character      *)
(* after the escaped one is read as usual.                                 *)
(***************************************************************************)
\* a character the tokenizer has no rule for and no input contains
Placeholder == "@"

RECURSIVE Unescaped(_, _)
\* str with every backslash that escapes dropped and every escaped
\* character replaced by the placeholder, and the escaped characters in
\* their order; escaping tells whether the first character is escaped
Unescaped(str, escaping) ==
    IF str = <<>> THEN [plain |-> <<>>, literals |-> <<>>]
    ELSE IF escaping
    THEN LET r == Unescaped(Tail(str), FALSE)
         IN  [plain |-> <<Placeholder>> \o r.plain, literals |-> <<Head(str)>> \o r.literals]
    ELSE IF Head(str) = "\\" THEN Unescaped(Tail(str), TRUE)
    ELSE LET r == Unescaped(Tail(str), FALSE)
         IN  [plain |-> <<Head(str)>> \o r.plain, literals |-> r.literals]

\* the texts of a list of tokens, one after the other
TextsOfTokens(args) == [k \in 1..Len(args) |-> args[k].value]

\* the number of placeholders in the texts before place j of text k
PlaceholdersBefore(texts, k, j) ==
    Cardinality({p \in UNION {{<<m, n>> : n \in 1..Len(texts[m])} : m \in 1..k} :
                    /\ p[1] < k \/ p[2] < j
                    /\ texts[p[1]][p[2]] = Placeholder})

\* the texts with their placeholders replaced by the literals, in order
Refilled(texts, literals) ==
    [k \in 1..Len(texts) |->
        [j \in 1..Len(texts[k]) |->
            IF texts[k][j] = Placeholder
            THEN literals[PlaceholdersBefore(texts, k, j) + 1]
            ELSE texts[k][j]]]

C26_EscapedCharactersAreLiteral ==
    Tokenized =>
        /\ LET u == Unescaped(lastParse.str, FALSE)
               plain == parseArguments(u.plain)
           IN  /\ Len(lastParse.args) = Len(plain)
               /\ \A k \in 1..Len(plain) : lastParse.args[k].quoted = plain[k].quoted
               /\ TextsOfTokens(lastParse.args) = Refilled(TextsOfTokens(plain), u.literals)
        /\ lastParse.str = TokEscaping =>
              /\ Len(lastParse.args) = 3
              /\ lastParse.args[2].value = <<"b", "a", "r", " ", "'", " ", "b", "a", "z">>
        /\ lastParse.str = <<"\\", "\\", "a">> => TextsOfTokens(lastParse.args) = << <<"\\", "a">> >>
        /\ lastParse.str = <<"a", "\\", " ">> => TextsOfTokens(lastParse.args) = << <<"a", " ">> >>
        /\ lastParse.str = <<"\\", "\"", "a">> =>
              lastParse.args = <<[index |-> 0, value |-> <<"\"", "a">>, quoted |-> FALSE]>>

\* the string of the test: an escaped quote inside a quoted token
C26_Witness ==
    /\ Tokenized
    /\ lastParse.str = TokEscaping
    /\ Len(lastParse.args) = 3

(***************************************************************************)
(* C27: joining the texts of the tokens of a string with single spaces and *)
(* tokenizing the result gives the same number of tokens, with the same    *)
(* texts in the same order.                                                *)
(***************************************************************************)
C27_RetokenizingKeepsTokens ==
    [][(lastParse' # lastParse /\ lastParse'.joined) =>
          TextsOfTokens(lastParse'.args) = TextsOfTokens(lastParse.args)]_vars

\* no text of the tokens holds white space, a quote or a backslash
PlainTexts(args) ==
    \A k \in 1..Len(args) : \A j \in 1..Len(args[k].value) :
        /\ ~IsWhitespace(args[k].value[j])
        /\ args[k].value[j] \notin quoteChars \cup {"\\"}

\* C27, for tokens whose texts hold no white space, quote or backslash
C27_RetokenizingKeepsPlainTokens ==
    [][(lastParse' # lastParse /\ lastParse'.joined /\ PlainTexts(lastParse.args)) =>
          TextsOfTokens(lastParse'.args) = TextsOfTokens(lastParse.args)]_vars

\* the tokens of -opt="v" bar, the first from a string with quotes, were
\* joined and tokenized again
C27_Witness ==
    /\ Tokenized
    /\ lastParse.joined
    /\ lastParse.str = <<"-", "o", "p", "t", "=", "v", " ", "b", "a", "r">>
    /\ TextsOfTokens(lastParse.args) = << <<"-", "o", "p", "t", "=", "v">>, bar >>

(***************************************************************************)
(* The signature-grammar specification: parseSignature on every short      *)
(* string over its main characters and on the strings of its tests.        *)
(***************************************************************************)
SigChars == {"<", ">", "-", "a", "="}

\* <str>
SigRequired == <<"<", "s", "t", "r", ">">>
\* <str:number>
SigTyped == <<"<", "s", "t", "r", ":", "n", "u", "m", "b", "e", "r", ">">>
\* <str=10>
SigDefault == <<"<", "s", "t", "r", "=", "1", "0", ">">>
\* [str]
SigOptional == <<"[", "s", "t", "r", "]">>
\* <str$>
SigCatchAll == <<"<", "s", "t", "r", "$", ">">>
\* <str...>
SigRest == <<"<", "s", "t", "r", ".", ".", ".", ">">>
\* -opt
SigSwitch == <<"-", "o", "p", "t">>
\* -opt|o:string=hi
SigOption == <<"-", "o", "p", "t", "|", "o", ":", "s", "t", "r", "i", "n", "g", "=", "h", "i">>
\* <arg1:string> <arg2:number>
SigTwo == <<"<", "a", "r", "g", "1", ":", "s", "t", "r", "i", "n", "g", ">", " ", "<", "a", "r", "g", "2", ":", "n", "u", "m", "b", "e", "r", ">">>
\* <n:number=-1>
SigNegativeDefault == <<"<", "n", ":", "n", "u", "m", "b", "e", "r", "=", "-", "1", ">">>
\* <a-b>
SigDashInName == <<"<", "a", "-", "b", ">">>
\* <n='-1'>
SigQuotedDefault == <<"<", "n", "=", "'", "-", "1", "'", ">">>
\* <a:x>
SigUnknownType == <<"<", "a", ":", "x", ">">>
\* <str
SigUnclosed == <<"<", "s", "t", "r">>
\* [str:number
SigUnclosedOptional == <<"[", "s", "t", "r", ":", "n", "u", "m", "b", "e", "r">>

\* <a> <b:number>
SigPlainAndNumber == <<"<", "a", ">", " ", "<", "b", ":", "n", "u", "m", "b", "e", "r", ">">>
\* <str:number=10>
SigTypedDefault == <<"<", "s", "t", "r", ":", "n", "u", "m", "b", "e", "r", "=", "1", "0", ">">>
\* <b=x> [a:bool] <c...>
SigThree ==
    <<"<", "b", "=", "x", ">", " ", "[", "a", ":", "b", "o", "o", "l", "]", " ", "<", "c", ".", ".", ".", ">">>
\* [a] [b:number$]
SigOptionalCatchAll == <<"[", "a", "]", " ", "[", "b", ":", "n", "u", "m", "b", "e", "r", "$", "]">>

\* -opt|o:string=hi <arg>
SigOptionThenParameter == SigOption \o <<" ", "<", "a", "r", "g", ">">>
\* -opt:string=$5 <arg>
SigDollarDefault ==
    <<"-", "o", "p", "t", ":", "s", "t", "r", "i", "n", "g", "=", "$", "5", " ", "<", "a", "r", "g", ">">>

SigInputs ==
    UNION {[1..n -> SigChars] : n \in 0..MaxSigLen}
        \cup {SigRequired, SigTyped, SigDefault, SigOptional, SigCatchAll,
              SigRest, SigSwitch, SigOption, SigTwo, SigNegativeDefault,
              SigDashInName, SigQuotedDefault, SigUnknownType, SigUnclosed, SigUnclosedOptional,
              SigPlainAndNumber, SigTypedDefault, SigThree, SigOptionalCatchAll,
              SigOptionThenParameter, SigDollarDefault}

NextSig == \E str \in SigInputs : ParseSignature(str)

SpecSig == Init /\ [][NextSig]_vars

\* parseSignature was called
SignatureParsed == lastParse # Null /\ lastParse.fn = "parseSignature"

RECURSIVE Brackets(_, _, _)
\* str read for its quotes and brackets alone: for every character,
\* whether a parameter opened with < or [ is open before it; and at the
\* end, whether one is open
Brackets(str, quoted, open) ==
    IF str = <<>> THEN <<open>>
    ELSE <<open /\ ~quoted>> \o
         (IF Head(str) \in quoteChars THEN Brackets(Tail(str), ~quoted, open)
          ELSE IF quoted THEN Brackets(Tail(str), quoted, open)
          ELSE IF Head(str) \in {"<", "["} THEN Brackets(Tail(str), quoted, TRUE)
          ELSE IF Head(str) \in {">", "]"} THEN Brackets(Tail(str), quoted, FALSE)
          ELSE Brackets(Tail(str), quoted, open))

\* the string ends with a parameter open
OpenAtEnd(str) == Brackets(str, FALSE, FALSE)[Len(str) + 1]

\* the string has a `-` inside an open parameter, and none elsewhere but in
\* quotes
DashesInside(str) ==
    /\ \E j \in 1..Len(str) : str[j] = "-" /\ Brackets(str, FALSE, FALSE)[j]
    /\ \A j \in 1..Len(str) :
          (str[j] = "-" /\ ~Brackets(str, FALSE, FALSE)[j]) =>
              \E h \in 1..(j - 1) : str[h] \in quoteChars

(***************************************************************************)
(* C28: parseSignature throws for every string that ends while a parameter *)
(* opened with < or [ has not been closed with > or ].                     *)
(***************************************************************************)
C28_UnclosedParameterThrows ==
    (SignatureParsed /\ OpenAtEnd(lastParse.str)) => lastParse.ret.threw

(***************************************************************************)
(* C29: a `-` inside an open parameter starts no option: the entry stays a *)
(* positional parameter under its declared name, with its declared type,   *)
(* and the literal after `=` is its default with the `-` in it, as in      *)
(* <n:number=-1>.                                                          *)
(***************************************************************************)
C29_DashInsideParameter ==
    SignatureParsed =>
        /\ (DashesInside(lastParse.str) /\ ~lastParse.ret.threw) =>
              \A k \in 1..Len(lastParse.ret.result) : ~lastParse.ret.result[k].option
        /\ lastParse.str = SigNegativeDefault =>
              lastParse.ret.result =
                  <<[name |-> <<"n">>, option |-> FALSE, type |-> "number", required |-> TRUE,
                     def |-> <<"-", "1">>]>>
        /\ lastParse.str = SigDashInName =>
              lastParse.ret.result =
                  <<[name |-> <<"a", "-", "b">>, option |-> FALSE, type |-> "string", required |-> TRUE]>>

(***************************************************************************)
(* The option-prefix specification: managers constructed with option       *)
(* prefixes in several orders, one definition with an option, one call.    *)
(***************************************************************************)
\* opts.optionPrefixes: "-" and "----" and "--" in several orders, "/", and
\* the default when the option is not given
PrefixLists ==
    { << <<"-">>, <<"-", "-", "-", "-">> >>,
      << <<"-", "-", "-", "-">>, <<"-">> >>,
      << <<"-">>, <<"-", "-">>, <<"-", "-", "-", "-">> >>,
      << <<"-", "-">>, <<"-", "-", "-", "-">>, <<"-">> >>,
      << <<"-", "-", "-", "-">>, <<"-", "-">>, <<"-">> >>,
      << <<"/">> >>,
      defaultOptionPrefixes }

\* -opt|o:string
PreSignature == <<[Option(opt, "string") EXCEPT !.shortcut = Str(<<"o">>)]>>

\* !cmd ----opt=v
PreLong == <<"!", "c", "m", "d", " ", "-", "-", "-", "-", "o", "p", "t", "=", "v">>
\* !cmd ---opt=v
PreTriple == <<"!", "c", "m", "d", " ", "-", "-", "-", "o", "p", "t", "=", "v">>
\* !cmd --opt=v
PreDouble == <<"!", "c", "m", "d", " ", "-", "-", "o", "p", "t", "=", "v">>
\* !cmd -o v
PreShortcut == <<"!", "c", "m", "d", " ", "-", "o", " ", "v">>
\* !cmd /opt v
PreSlash == <<"!", "c", "m", "d", " ", "/", "o", "p", "t", " ", "v">>
\* !cmd '----opt=v'
PreQuoted == <<"!", "c", "m", "d", " ", "'", "-", "-", "-", "-", "o", "p", "t", "=", "v", "'">>

PreInputs == {PreLong, PreTriple, PreDouble, PreShortcut, PreSlash, PreQuoted}

\* new CommandManager({ prefix: "!", optionPrefixes: list })
InitPre ==
    /\ commands = <<>>
    /\ commandId = 0
    /\ defaultPrefix = RegExpOf(<<"!">>)
    /\ optionPrefixes \in {SortPrefixes(list) : list \in PrefixLists}
    /\ calls = [id \in CallIds |-> IdleCall]
    /\ lastAdd = Null
    /\ snapshot = Null
    /\ lastRemove = Null
    /\ lastParse = Null

NextPre ==
    \/ commands = <<>> /\ Add(<<Str(cmd)>>, <<PreSignature>>, NoConfig)
    \/ \E str \in PreInputs : FindBegin(1, str)
    \/ \E str \in PreInputs : TryBegin(1, 1, str)
    \/ Match(1)
    \/ Scan(1)
    \/ Fill(1)
    \/ ConvertValue(1)

SpecPre == InitPre /\ [][NextPre]_vars

\* the configured prefixes the token at the cursor starts with
Fitting ==
    {optionPrefixes[k] : k \in {j \in 1..Len(optionPrefixes) : StartsWith(theToken.value, optionPrefixes[j])}}

(***************************************************************************)
(* C30: of the configured option prefixes a token starts with, the longest *)
(* is taken as its prefix and the option name is what follows it, whatever *)
(* the order the prefixes were configured in: with the prefixes - and      *)
(* ----, the token ----opt=v names the option opt.                         *)
(***************************************************************************)
C30_LongestPrefixFirst ==
    /\ [][(theCall.pc = "scan" /\ ~theToken.quoted /\ Fitting # {}) =>
             LET longest == CHOOSE pr \in Fitting : \A o \in Fitting : Len(o) <= Len(pr)
                 named == optMatchRegex(StrSlice(theToken.value, Len(longest)))
                 declared == SelectSeq(OptionsOf(theSignature),
                                       LAMBDA o : o.name = named.name \/ o.shortcut = Str(named.name))
             IN  named # Null =>
                     IF declared = <<>>
                     THEN calls'[1].signatureMatchResult = Err(Msg("Unknown option: ", longest \o named.name))
                     ELSE /\ HasResult(calls'[1].result, declared[1].name)
                          /\ named.value # Undefined =>
                                EntryOf(calls'[1].result, declared[1].name).value = named.value]_vars
    /\ [](( /\ theCall.pc = "done"
            /\ commands # <<>>
            /\ theCall.str = PreLong
            /\ \E k \in 1..Len(optionPrefixes) : optionPrefixes[k] = <<"-", "-", "-", "-">>) =>
             /\ "values" \in DOMAIN theCall.ret
             /\ EntryOf(theCall.ret.values, opt).value = Str(<<"v">>))

\* the test: the prefixes - and ----, and ----opt=v bound to opt
C30_Witness ==
    /\ theCall.pc = "done"
    /\ theCall.str = PreLong
    /\ optionPrefixes = << <<"-", "-", "-", "-">>, <<"-">> >>
    /\ "values" \in DOMAIN theCall.ret
    /\ EntryOf(theCall.ret.values, opt).value = Str(<<"v">>)

(***************************************************************************)
(* The option-token specification: managers with several option prefixes,  *)
(* signatures with positional parameters, a valued option and a switch,    *)
(* and inputs built from the configured prefixes.                          *)
(***************************************************************************)
\* <arg1> [arg2] -opt|o:number -sw|s
TwoAndOptions ==
    << << Parameter(arg1, "string"),
          [Parameter(arg2, "string") EXCEPT !.required = FALSE],
          [Option(opt, "number") EXCEPT !.shortcut = Str(<<"o">>)],
          [switchOption(sw) EXCEPT !.shortcut = Str(<<"s">>)] >> >>

\* <arg1>
OneRequired == << <<Parameter(arg1, "string")>> >>

\* <arg1> <arg2...>
OneAndRest == << <<Parameter(arg1, "string"), [Parameter(arg2, "string") EXCEPT !.rest = TRUE]>> >>

OptSignatures == {TwoAndOptions, OneRequired, OneAndRest}

\* the argument texts that do not depend on the configured prefixes:
\* nothing, `a`, `a b`, `a b c`, `a -o 5 b`, `-5`, `--`, `-- a`, `a -5`,
\* `a b -5`, `-\ 5` and `'-5'`
OptTails ==
    { <<>>,
      <<" ", "a">>,
      <<" ", "a", " ", "b">>,
      <<" ", "a", " ", "b", " ", "c">>,
      <<" ", "a", " ", "-", "o", " ", "5", " ", "b">>,
      <<" ", "-", "5">>,
      <<" ", "-", "-">>,
      <<" ", "-", "-", " ", "a">>,
      <<" ", "a", " ", "-", "5">>,
      <<" ", "a", " ", "b", " ", "-", "5">>,
      <<" ", "-", "\\", " ", "5">>,
      <<" ", "'", "-", "5", "'">> }

\* `a ` and then prefix + name + `=5`, or prefix + name + `=5` alone, for a
\* configured prefix and the name or the shortcut of the valued option
OptTokens(prefixes) ==
    {lead \o prefixes[k] \o name \o <<"=", "5">> :
        lead \in {<<" ">>, <<" ", "a", " ">>}, k \in 1..Len(prefixes), name \in {opt, <<"o">>}}

\* the inputs of a manager with the given option prefixes
OptInputs(prefixes) == {<<"!">> \o cmd \o tail : tail \in OptTails \cup OptTokens(prefixes)}

NextOpt ==
    \/ \E s \in OptSignatures : commands = <<>> /\ Add(<<Str(cmd)>>, s, NoConfig)
    \/ \E str \in OptInputs(optionPrefixes) : FindBegin(1, str)
    \/ \E str \in OptInputs(optionPrefixes) : TryBegin(1, 1, str)
    \/ Match(1)
    \/ Scan(1)
    \/ Fill(1)
    \/ ConvertValue(1)

SpecOpt == InitPre /\ [][NextOpt]_vars

\* the valued options of the signature the call is binding
ValuedOptions == SelectSeq(OptionsOf(theSignature), LAMBDA o : ~o.isSwitch)

\* the token at the cursor is prefix + name + `=` + a value, for a configured
\* prefix and the name or the shortcut of the valued option o
NamesWithValue(o) ==
    \E k \in 1..Len(optionPrefixes),
       name \in {o.name} \cup (IF o.shortcut = Undefined THEN {} ELSE {o.shortcut.s}) :
        LET head == optionPrefixes[k] \o name \o <<"=">>
        IN  StartsWith(theToken.value, head) /\ Len(theToken.value) > Len(head)

\* the text after the first `=` of the token at the cursor
InlineValue ==
    LET at == CHOOSE k \in 1..Len(theToken.value) :
                  theToken.value[k] = "=" /\ \A j \in 1..(k - 1) : theToken.value[j] # "="
    IN  StrSlice(theToken.value, at)

(***************************************************************************)
(* C31: for every configured option prefix p and every valued option with  *)
(* the name n and the shortcut s, the unquoted tokens p n `=v` and         *)
(* p s `=v` both bind that option to the text v, before any conversion:    *)
(* with the prefixes - and --, `-o=5` and `--o=5` bind the same option to  *)
(* "5".                                                                    *)
(***************************************************************************)
C31_PrefixesAndShortcutsInterchangeable ==
    [][theCall.pc = "scan" =>
       \A k \in 1..Len(ValuedOptions) :
          (~theToken.quoted /\ NamesWithValue(ValuedOptions[k])) =>
              /\ calls'[1].pc = "scan" \/ calls'[1].pc = "fill"
              /\ calls'[1].i = theCall.i + 1
              /\ calls'[1].paramIndex = theCall.paramIndex
              /\ EntryOf(calls'[1].result, ValuedOptions[k].name) =
                     Bound(ValuedOptions[k], Str(InlineValue), FALSE)]_vars

\* with the default prefixes, `!cmd a --o=5` has been answered with opt
\* converted to 5
C31_Witness ==
    /\ theCall.pc = "done"
    /\ optionPrefixes = << <<"-", "-">>, <<"-">> >>
    /\ theCall.str = <<"!">> \o cmd \o <<" ", "a", " ", "-", "-", "o", "=", "5">>
    /\ "values" \in DOMAIN theCall.ret
    /\ EntryOf(theCall.ret.values, opt).value = Num(5)

(***************************************************************************)
(* The grammar of positional parameters, read item by item.                *)
(***************************************************************************)
\* the characters that have no meaning of their own in the grammar
PlainChar(ch) ==
    /\ ch \notin {"<", ">", "[", "]", "-", "|", ":", "=", "$", "."}
    /\ ch \notin quoteChars
    /\ ~IsWhitespace(ch)

\* a non-empty text of plain characters
PlainText(text) == text # <<>> /\ \A j \in 1..Len(text) : PlainChar(text[j])

RECURSIVE SplitAtSpaces(_)
\* the pieces of str between its single spaces
SplitAtSpaces(str) ==
    LET at == FirstIndex(str, LAMBDA ch : ch = " ")
    IN  IF at = 0 THEN <<str>>
        ELSE <<SubSeq(str, 1, at - 1)>> \o SplitAtSpaces(SubSeq(str, at + 1, Len(str)))

\* text ends with the text tail
EndsWith(text, tail) ==
    Len(text) >= Len(tail) /\ SubSeq(text, Len(text) - Len(tail) + 1, Len(text)) = tail

\* an item `<name>` or `[name]`, the name followed by `:type` and, before or
\* after it, by `...` or `$`, then by `=default`, each or none of them: its
\* parts
ItemParts(item) ==
    LET body == SubSeq(item, 2, Len(item) - 1)
        eq == FirstIndex(body, LAMBDA ch : ch = "=")
        head == IF eq = 0 THEN body ELSE SubSeq(body, 1, eq - 1)
        colon == FirstIndex(head, LAMBDA ch : ch = ":")
        named == IF colon = 0 THEN head ELSE SubSeq(head, 1, colon - 1)
        typed == IF colon = 0 THEN <<>> ELSE SubSeq(head, colon + 1, Len(head))
        Marker(text) == IF EndsWith(text, <<".", ".", ".">>) THEN <<".", ".", ".">>
                        ELSE IF EndsWith(text, <<"$">>) THEN <<"$">>
                        ELSE <<>>
        afterType == Marker(named) = <<>>
        marker == IF afterType THEN Marker(typed) ELSE Marker(named)
    IN  [open |-> item[1], close |-> item[Len(item)],
         name |-> IF afterType THEN named ELSE SubSeq(named, 1, Len(named) - Len(marker)),
         marker |-> marker,
         typed |-> colon # 0,
         type |-> IF afterType THEN SubSeq(typed, 1, Len(typed) - Len(marker)) ELSE typed,
         valued |-> eq # 0,
         def |-> IF eq = 0 THEN <<>> ELSE SubSeq(body, eq + 1, Len(body))]

\* the item is written as the grammar writes a positional parameter; the
\* name is no number
IsParameterItem(item) ==
    /\ Len(item) >= 3
    /\ <<item[1], item[Len(item)]>> \in {<<"<", ">">>, <<"[", "]">>}
    /\ LET parts == ItemParts(item)
       IN  /\ PlainText(parts.name)
           /\ ~IsDigit(parts.name[1])
           /\ parts.typed => parts.type \in TypeNames
           /\ parts.valued => PlainText(parts.def)

\* the entry the grammar gives the item
Reading(item) ==
    LET parts == ItemParts(item)
    IN  (IF parts.valued THEN [def |-> parts.def] ELSE <<>>)
        @@ (IF parts.marker = <<".", ".", ".">> THEN [rest |-> TRUE] ELSE <<>>)
        @@ (IF parts.marker = <<"$">> THEN [catchAll |-> TRUE] ELSE <<>>)
        @@ [name |-> parts.name, option |-> FALSE, required |-> parts.open = "<",
            type |-> IF parts.typed THEN TypeOf(parts.type) ELSE "string"]

\* str is a list of positional parameters with different names
IsParameterList(str) ==
    LET items == SplitAtSpaces(str)
    IN  /\ \A k \in 1..Len(items) : IsParameterItem(items[k])
        /\ \A j, k \in 1..Len(items) : j # k => ItemParts(items[j]).name # ItemParts(items[k]).name

(***************************************************************************)
(* C32: parseSignature gives every `<name>` a required and every `[name]`  *)
(* an optional positional parameter, in the order they are written, with   *)
(* the converter named after `:` or else that of the default type, `...`   *)
(* for rest, `$` for catch-all and the text after `=` as the default:      *)
(* `<a> <b:number>` gives two required parameters, a with the string and   *)
(* b with the number converter.                                            *)
(***************************************************************************)
C32_ParametersAsWritten ==
    (SignatureParsed /\ IsParameterList(lastParse.str)) =>
        LET items == SplitAtSpaces(lastParse.str)
        IN  /\ ~lastParse.ret.threw
            /\ lastParse.ret.result = [k \in 1..Len(items) |-> Reading(items[k])]
            /\ lastParse.str = SigPlainAndNumber =>
                  lastParse.ret.result =
                      << [name |-> <<"a">>, option |-> FALSE, type |-> "string", required |-> TRUE],
                         [name |-> <<"b">>, option |-> FALSE, type |-> "number", required |-> TRUE] >>

\* `<b=x> [a:bool] <c...>` was parsed into b, a and c
C32_Witness ==
    /\ SignatureParsed
    /\ lastParse.str = SigThree
    /\ Len(lastParse.ret.result) = 3
    /\ lastParse.ret.result[1] = [name |-> <<"b">>, option |-> FALSE, type |-> "string", required |-> TRUE, def |-> <<"x">>]
    /\ lastParse.ret.result[2] = [name |-> <<"a">>, option |-> FALSE, type |-> "bool", required |-> FALSE]
    /\ lastParse.ret.result[3].rest

(***************************************************************************)
(* The positional tokens of a token list, read without the binder.         *)
(***************************************************************************)
\* the token read as an option under the given prefixes, Null if it is none
AsOption(prefixes, token) ==
    LET prefix == IF token.quoted THEN <<>> ELSE MatchingOptionPrefix(prefixes, token.value)
    IN  IF prefix = <<>> THEN Null ELSE optMatchRegex(StrSlice(token.value, Len(prefix)))

RECURSIVE PositionalTokens(_, _, _, _)
\* the texts of the tokens of args from position k on that are neither
\* options nor the values that valued options without an inline value take
PositionalTokens(prefixes, signature, args, k) ==
    IF k > Len(args) THEN <<>>
    ELSE LET named == AsOption(prefixes, args[k])
             TakesNext(e) == /\ e.option /\ ~e.isSwitch
                             /\ e.name = named.name \/ e.shortcut = Str(named.name)
         IN  IF named = Null
             THEN <<args[k].value>> \o PositionalTokens(prefixes, signature, args, k + 1)
             ELSE IF named.value = Undefined /\ \E j \in 1..Len(signature) : TakesNext(signature[j])
             THEN PositionalTokens(prefixes, signature, args, k + 2)
             ELSE PositionalTokens(prefixes, signature, args, k + 1)

\* the one signature of the one definition of the option-token specification
OnlySignature == SignaturesOf(commands[1])[1]

(***************************************************************************)
(* C33: with a signature of n positional parameters, none of them rest or  *)
(* catch-all, the overload binds only if the positional tokens (those      *)
(* that are neither options nor values taken by options) are at most n and *)
(* at least as many as the required parameters; the i-th positional token  *)
(* is then the value of the i-th positional parameter as declared.         *)
(***************************************************************************)
C33_PositionalTokensInOrder ==
    (theCall.pc = "done" /\ commands # <<>> /\ "values" \in DOMAIN theCall.ret) =>
        LET positional == SelectSeq(OnlySignature, LAMBDA e : ~e.option)
            tokens == PositionalTokens(optionPrefixes, OnlySignature, theCall.parsedArguments, 1)
        IN  (\A k \in 1..Len(positional) : ~positional[k].rest /\ ~positional[k].catchAll) =>
                /\ Len(tokens) <= Len(positional)
                /\ Len(tokens) >= Len(SelectSeq(positional, LAMBDA e : e.required))
                /\ \A k \in 1..Len(tokens) :
                      EntryOf(theCall.ret.values, positional[k].name) =
                          Bound(positional[k], Str(tokens[k]), FALSE)
                /\ \A k \in (Len(tokens) + 1)..Len(positional) :
                      ~HasResult(theCall.ret.values, positional[k].name)

\* `!cmd a -o 5 b` on <arg1> [arg2] -opt|o:number -sw|s: arg1 is a and arg2
\* is b
C33_Witness ==
    /\ theCall.pc = "done"
    /\ commands # <<>>
    /\ commands[1].signatures = TwoAndOptions
    /\ theCall.str = <<"!">> \o cmd \o <<" ", "a", " ", "-", "o", " ", "5", " ", "b">>
    /\ "values" \in DOMAIN theCall.ret
    /\ EntryOf(theCall.ret.values, arg1).value = Str(<<"a">>)
    /\ EntryOf(theCall.ret.values, arg2).value = Str(<<"b">>)
    /\ EntryOf(theCall.ret.values, opt).value = Num(5)

(***************************************************************************)
(* C34: in every state of the registry, every signature of every           *)
(* registered definition has at most one optional positional parameter, at *)
(* most one rest parameter and at most one catch-all parameter, and no     *)
(* positional parameter comes after an optional, rest or catch-all one.    *)
(***************************************************************************)
C34_RegisteredSignaturesWellFormed ==
    \A k \in 1..Len(commands) : \A j \in 1..Len(commands[k].signatures) :
        LET positional == SelectSeq(commands[k].signatures[j], LAMBDA e : ~e.option)
            Count(Test(_)) == Cardinality({i \in 1..Len(positional) : Test(positional[i])})
        IN  /\ Count(LAMBDA e : ~e.required) <= 1
            /\ Count(LAMBDA e : e.rest) <= 1
            /\ Count(LAMBDA e : e.catchAll) <= 1
            /\ \A i \in 1..(Len(positional) - 1) :
                  positional[i].required /\ ~positional[i].rest /\ ~positional[i].catchAll

\* a definition is registered whose second signature ends with an optional
\* parameter after a switch, and whose first is <arg1>
C34_Witness ==
    /\ Len(commands) = 1
    /\ commands[1].signatures =
          << <<Parameter(arg1, "string")>>,
             <<Parameter(arg1, "string"), switchOption(sw), OptionalArg2>> >>
    /\ ~lastAdd.threw

(***************************************************************************)
(* C35: an add() that throws out of its validation leaves the manager as   *)
(* it was: the registered definitions are the same and no id is taken, so  *)
(* the next add() that succeeds gets the id it would have got without the  *)
(* call that threw.                                                        *)
(***************************************************************************)
C35_FailedAddChangesNothing ==
    [][lastAdd' # lastAdd =>
          IF lastAdd'.threw
          THEN UNCHANGED <<commands, commandId, snapshot>>
          ELSE lastAdd'.afterThrow =>
                  /\ commandId' = commandId + 1
                  /\ Len(commands') = Len(commands) + 1
                  /\ SubSeq(commands', 1, Len(commands)) = commands
                  /\ commands'[Len(commands')].id = commandId + 1]_vars

\* after an add() that succeeded and one that threw, the next add() got the
\* id 2
C35_Witness ==
    /\ lastAdd # Null
    /\ ~lastAdd.threw
    /\ lastAdd.afterThrow
    /\ IdsOf(commands) = <<1, 2>>
    /\ commandId = 2

(***************************************************************************)
(* The two-call specification: two calls of findMatchingCommand on one     *)
(* manager, their steps interleaved in every order; add() is called only   *)
(* before the first of them.                                               *)
(***************************************************************************)
MaxTwoCommands == 2

\* foo <bar:number> with a passing pre- and post-filter, foo <bar:string>
\* without filters, and foo <bar:number> with a post-filter that fails
TwoCommands ==
    { <<foo, << <<Parameter(bar, "number")>> >>,
        [prefix |-> Undefined, preFilters |-> <<"pass">>, postFilters |-> <<"pass">>]>>,
      <<foo, << <<Parameter(bar, "string")>> >>, NoConfig>>,
      <<foo, << <<Parameter(bar, "number")>> >>,
        [prefix |-> Undefined, preFilters |-> <<>>, postFilters |-> <<"fail">>]>> }

NextTwo ==
    \/ \E d \in TwoCommands : Len(commands) < MaxTwoCommands /\ Add(<<Str(d[1])>>, d[2], d[3])
    \/ \E id \in CallIds, str \in FindInputs : FindBegin(id, str)
    \/ \E id \in CallIds : Step(id)

SpecTwo == Init /\ [][NextTwo]_vars

RECURSIVE Kinds(_, _, _)
\* what each character of str is: "space" (whitespace outside quotes, not
\* escaped), "open" or "close" (a quote that opens or closes a quoted
\* region), "escape" (a backslash that escapes the next character) or
\* "text"; inQuote is the quote of the open region, "" outside
Kinds(str, escaped, inQuote) ==
    IF str = <<>> THEN <<>>
    ELSE LET ch == Head(str)
         IN  IF escaped THEN <<"text">> \o Kinds(Tail(str), FALSE, inQuote)
             ELSE IF IsWhitespace(ch) /\ inQuote = ""
             THEN <<"space">> \o Kinds(Tail(str), FALSE, inQuote)
             ELSE IF ch \in quoteChars /\ inQuote = ""
             THEN <<"open">> \o Kinds(Tail(str), FALSE, ch)
             ELSE IF ch \in quoteChars /\ inQuote = ch
             THEN <<"close">> \o Kinds(Tail(str), FALSE, "")
             ELSE IF ch = "\\"
             THEN <<"escape">> \o Kinds(Tail(str), TRUE, inQuote)
             ELSE <<"text">> \o Kinds(Tail(str), FALSE, inQuote)

\* the tokens parseArguments has pushed after the first k characters of str
ArgsAfter(str, k) == ParseLoop(ParseInit, SubSeq(str, 1, k), 0).args

\* a token ends at character k of str
EndsAt(str, k) == Len(ArgsAfter(str, k)) > Len(ArgsAfter(str, k - 1))

(***************************************************************************)
(* C37 as claimed: the tokenizer ends a token only at whitespace that is   *)
(* outside quotes and not escaped, or at the end of the input: two         *)
(* adjacent characters that are no whitespace never end up in different    *)
(* tokens.                                                                 *)
(***************************************************************************)
C37_TokensEndAtWhitespaceOnly ==
    Tokenized =>
        \A k \in 1..(Len(lastParse.str) - 1) :
            (~IsWhitespace(lastParse.str[k]) /\ ~IsWhitespace(lastParse.str[k + 1])) =>
                ~(EndsAt(lastParse.str, k) /\ Len(lastParse.args) > Len(ArgsAfter(lastParse.str, k)))

(***************************************************************************)
(* C37, amended: the tokenizer ends a token only at whitespace that is     *)
(* outside quotes and not escaped, at the quote that closes a quoted       *)
(* region, or at the end of the input, where it ends at most one.          *)
(***************************************************************************)
C37_TokensEndAtWhitespaceOrClosingQuote ==
    Tokenized =>
        /\ \A k \in 1..Len(lastParse.str) :
              EndsAt(lastParse.str, k) =>
                  /\ Kinds(lastParse.str, FALSE, "")[k] \in {"space", "close"}
                  /\ Len(ArgsAfter(lastParse.str, k)) = Len(ArgsAfter(lastParse.str, k - 1)) + 1
        /\ Len(lastParse.args) <= Len(ArgsAfter(lastParse.str, Len(lastParse.str))) + 1
        /\ \A k \in 1..Len(ArgsAfter(lastParse.str, Len(lastParse.str))) :
              lastParse.args[k] = ArgsAfter(lastParse.str, Len(lastParse.str))[k]

\* a"b"c was split into ab and c at the closing quote
C37_Witness ==
    /\ Tokenized
    /\ lastParse.str = TokQuotesInside
    /\ TextsOfTokens(lastParse.args) = << <<"a", "b">>, <<"c">> >>
    /\ EndsAt(TokQuotesInside, 4)

(***************************************************************************)
(* Tokens that begin with an option prefix.                                *)
(***************************************************************************)
\* the text of the token at the cursor after the longest configured prefix
\* it starts with
AfterPrefix ==
    LET longest == CHOOSE pr \in Fitting : \A o \in Fitting : Len(o) <= Len(pr)
    IN  StrSlice(theToken.value, Len(longest))

\* text is a name without whitespace, alone or followed by `=` and a value
\* without a line break
NameOrNameValue(text) ==
    \/ \A j \in 1..Len(text) : ~IsWhitespace(text[j])
    \/ \E j \in 1..(Len(text) - 1) :
          /\ text[j] = "="
          /\ \A k \in 1..(j - 1) : ~IsWhitespace(text[k])
          /\ \A k \in (j + 1)..Len(text) : ~IsLineTerminator(text[k])

\* the turn of the token loop at hand binds a declared option and no
\* parameter, or makes the overload, the only one of its definition, fail
OptionOrFailure ==
    LET d == calls'[1]
        named == optMatchRegex(AfterPrefix)
        declared == SelectSeq(OptionsOf(theSignature),
                              LAMBDA o : o.name = named.name \/ o.shortcut = Str(named.name))
    IN  \/ d.pc = "done" /\ "error" \in DOMAIN d.ret
        \/ /\ named # Null
           /\ declared # <<>>
           /\ HasResult(d.result, declared[1].name)
           /\ d.paramIndex = theCall.paramIndex
           /\ \A k \in 1..Len(theParameters) :
                 EntryOf(d.result, theParameters[k].name) = EntryOf(theCall.result, theParameters[k].name)

(***************************************************************************)
(* C38 as claimed: an unquoted token that begins with a configured option  *)
(* prefix, is not taken as the value of the option before it and is        *)
(* reached by the token loop is never bound as a positional value: it      *)
(* binds a declared option or makes the overload fail.                     *)
(***************************************************************************)
C38_PrefixedTokenNeverPositional ==
    [][(theCall.pc = "scan" /\ ~theToken.quoted /\ Fitting # {}) => OptionOrFailure]_vars

(***************************************************************************)
(* C38, amended: an unquoted token that begins with a configured option    *)
(* prefix followed by a name without whitespace, alone or with `=` and a   *)
(* value, is never bound as a positional value: it binds a declared option *)
(* or makes the overload fail, so that `-5` and a bare `--` are unknown    *)
(* options.  A token with whitespace after the prefix, as `-\ 5`, is a     *)
(* positional value.                                                       *)
(***************************************************************************)
C38_OptionTokenNeverPositional ==
    [][(theCall.pc = "scan" /\ ~theToken.quoted /\ Fitting # {}) =>
          /\ NameOrNameValue(AfterPrefix) => OptionOrFailure
          /\ (~NameOrNameValue(AfterPrefix) /\ theCall.paramIndex < Len(theParameters)) =>
                HasResult(calls'[1].result, theParameters[theCall.paramIndex + 1].name)
          /\ theToken.value \in {<<"-", "5">>, <<"-", "-">>} =>
                /\ calls'[1].pc = "done"
                /\ "error" \in DOMAIN calls'[1].ret
                /\ calls'[1].ret.error.what = "Unknown option: "]_vars

\* `!cmd -5` on <arg1> has been answered with the error of an unknown option
C38_Witness ==
    /\ theCall.pc = "done"
    /\ commands # <<>>
    /\ commands[1].signatures = OneRequired
    /\ theCall.str = <<"!">> \o cmd \o <<" ", "-", "5">>
    /\ "error" \in DOMAIN theCall.ret
    /\ theCall.ret.error = Msg("Unknown option: ", <<"-", "5">>)

(***************************************************************************)
(* C39: parseSignature carries no state from one entry to the next: if X   *)
(* and Y are grammar strings that parseSignature takes without an error,   *)
(* every entry of parseSignature(Y) is an entry of parseSignature(X Y),    *)
(* X and Y joined by a space, with the same fields.                        *)
(***************************************************************************)
C39_NoStateBetweenEntries ==
    SignatureParsed =>
        \A k \in 1..Len(lastParse.str) :
            LET X == SubSeq(lastParse.str, 1, k - 1)
                Y == SubSeq(lastParse.str, k + 1, Len(lastParse.str))
            IN  (lastParse.str[k] = " " /\ ~parseSignature(X).threw /\ ~parseSignature(Y).threw) =>
                    /\ ~lastParse.ret.threw
                    /\ \A j \in 1..Len(parseSignature(Y).result) :
                          \E i \in 1..Len(lastParse.ret.result) :
                              lastParse.ret.result[i] = parseSignature(Y).result[j]

(***************************************************************************)
(* The alias specification: definitions with several triggers.             *)
(***************************************************************************)
MaxAliasCommands == 1

\* ["foo", "bar", "baz"]
AliasFooBarBaz == <<Str(foo), Str(bar), Str(baz)>>

\* ["foo", " bar"]
AliasFooSpaceBar == <<Str(foo), Str(<<" ">> \o bar)>>

\* ["s", /foo|bar|baz/]
AliasAndRegExp == <<Str(<<"s">>), RegExp(<<foo, bar, baz>>)>>

AliasTriggers == {<<Str(foo)>>, AliasFooBarBaz, AliasFooSpaceBar, AliasAndRegExp}

\* [arg...]
AliasSignature == <<[OptionalArg EXCEPT !.rest = TRUE]>>

\* !foo x
AliasFooX == <<"!">> \o foo \o <<" ", "x">>

\* !bar x
AliasBarX == <<"!">> \o bar \o <<" ", "x">>

\* !baz
AliasBaz == <<"!">> \o baz

\* !foo bar x
AliasFooBarX == <<"!">> \o foo \o <<" ">> \o bar \o <<" ", "x">>

\* !foo baz
AliasFooBaz == <<"!">> \o foo \o <<" ">> \o baz

\* !s bar
AliasSBar == <<"!", "s", " ">> \o bar

\* !x foo
AliasXFoo == <<"!", "x", " ">> \o foo

AliasInputs ==
    {TrigFoo, TrigBar, AliasFooX, AliasBarX, AliasBaz, AliasFooBarX, AliasFooBaz, AliasSBar,
     AliasXFoo}

NextAlias ==
    \/ \E t \in AliasTriggers :
          Len(commands) < MaxAliasCommands /\ Add(t, <<AliasSignature>>, NoConfig)
    \/ \E str \in AliasInputs : FindBegin(1, str)
    \/ Match(1)
    \/ Scan(1)
    \/ Fill(1)
    \/ ConvertValue(1)

SpecAlias == Init /\ [][NextAlias]_vars

\* the length of the match of the first of triggers that matches str, or -1
FirstTriggerMatch(triggers, str) ==
    LET hits == {k \in 1..Len(triggers) : MatchTrigger(triggers[k], str) >= 0}
    IN  IF hits = {} THEN -1
        ELSE MatchTrigger(triggers[CHOOSE k \in hits : \A j \in hits : k <= j], str)

(***************************************************************************)
(* C40: when a definition is matched, the text taken off the input is the  *)
(* match of the prefix and the match of exactly one trigger, the first of  *)
(* the definition's triggers that matches; the tokenized string is the     *)
(* input without the prefix and that one trigger.                          *)
(***************************************************************************)
C40_ExactlyOneTriggerConsumed ==
    theCall.pc \in {"scan", "fill", "convert"} =>
        LET d == theCall.command
            n == IF d.prefix = Null THEN 0 ELSE MatchPrefix(d.prefix, theCall.str)
            left == StrSlice(theCall.str, n)
            m == FirstTriggerMatch(d.triggers, left)
        IN  /\ n >= 0
            /\ m >= 0
            /\ theCall.rest = StrSlice(left, m)
            /\ theCall.parsedArguments = parseArguments(StrSlice(left, m))

=============================================================================
